---- MODULE Spec2Model ----
(***************************************************************************)
(* The parse-apply-watch reconciliation driver of Config Sync              *)
(* (package parse): the Run loop with its four one-shot timers, one pass   *)
(* (run / read / readFromSource / parseSource / parseAndUpdate), the       *)
(* shared setSyncStatus, and the periodic sync-status goroutine            *)
(* (updateSyncStatusPeriodically) that is started for each Apply.          *)
(*                                                                         *)
(* The driver is one process whose position is pc.  A pass runs in one     *)
(* step up to the start of Apply (a goroutine left over from an earlier    *)
(* pass steps before or after that part) and then stops at Update and at   *)
(* each write of the sync status, where the periodic goroutines interleave *)
(* with it.  Results of the collaborators (source reader, done-file, file  *)
(* loader, parser, applier, status writes) are inputs chosen               *)
(* nondeterministically; at most MaxFaults of them fail in an execution.   *)
(* Spec leaves the timers of Run untracked (every timer case can proceed   *)
(* at every select); SpecRun tracks them and the cancellation of ctx;      *)
(* SpecPass is the passes alone, with MaxPassFaults failing calls.         *)
(***************************************************************************)
EXTENDS Integers, Sequences, FiniteSets, TLC

\* ------------------------------------------------------------------ bounds
\* Periodic goroutines alive at once (each Apply starts one; cancel() does
\* not wait for it to stop).
MaxTasks == 1
\* Collaborator calls that fail (return errors) in one execution.
MaxFaults == 1
\* In the specification of the passes alone: how many calls can fail
MaxPassFaults == 2
\* the conflict errors one Update returns to setSyncStatus
MaxConflictErrs == 3
\* the sync errors one call of setSyncStatus is given
MaxSyncErrs == 2
\* the versions of the content a ConfigMap of the monitoring namespace goes
\* through
MaxVersion == 2

\* ------------------------------------------------------------- data model
NoCommit == ""
Commits == {"c1", "c2"}
\* The commits whose configs need rendering: for them the hydrated root
\* exists once rendering is done; for the others the raw source is read
HydratedCommits == {"c1"}
NoDir == <<>>
\* syncDir of the raw source / of the hydrated output for a commit
RawDir(c) == <<"source", c>>
HydratedDir(c) == <<"hydrated", c>>

\* Error kinds (an error list is modelled by the kind of its errors)
NoErr == "none"
SourceErr == "SourceErr"
TransientErr == "TransientErr"
HydrationErr == "HydrationErr"
ParseBlocking == "ParseBlocking"
ParseNonBlocking == "ParseNonBlocking"
ApplyErr == "ApplyErr"
WriteErr == "WriteErr"
ReportErr == "ReportErr"
SyncErrKinds == {NoErr, ApplyErr}

\* status.Append on error kinds: the multi-error as the set of its kinds
statusAppend(a, b) == (a \cup b) \ {NoErr}

RenderingInProgress == "Rendering is still in progress"
RenderingSucceeded == "Rendering succeeded"
RenderingFailed == "Rendering failed"
RenderingSkipped == "Rendering skipped"

triggerResync == "resync"
triggerReimport == "reimport"
triggerRetry == "retry"
triggerManagementConflict == "managementConflict"
triggerWatchUpdate == "watchUpdate"
NoTrigger == "none"

EmptySource == [commit |-> NoCommit, syncDir |-> NoDir]
EmptyParserResult == [has |-> FALSE, errs |-> NoErr, commit |-> NoCommit]
EmptyCache == [source |-> EmptySource, parserResult |-> EmptyParserResult,
               needToRetry |-> FALSE]
EmptySourceStatus == [commit |-> NoCommit, errs |-> NoErr]
EmptyRenderingStatus == [commit |-> NoCommit, message |-> "", errs |-> NoErr]
EmptySyncStatus == [commit |-> NoCommit, syncing |-> FALSE, errs |-> NoErr]

TimerNames == {"poll", "resync", "retry", "statusUpdate"}

VARIABLES
  cache,            \* state.cache: source snapshot, parser result, needToRetry
  renderingStatus,  \* state.renderingStatus: the last published rendering status
  sourceStatus,     \* state.sourceStatus: the last published source status
  syncStatus,       \* state.syncStatus: the last published sync status
  checkpointed,     \* the last pass succeeded end to end
  pc,               \* position of the driver goroutine
  trigger,          \* trigger of the pass in progress
  loc,              \* local variables of the handler in progress
  timers,           \* runTimer, resyncTimer, retryTimer, statusUpdateTimer
  ctxDone,          \* the parent context is cancelled
  tasks,            \* the periodic sync-status goroutines that are alive
  log,              \* history of the pass in progress
  inFlight,         \* handlers of the Run loop that started and did not return
  preempted,        \* the case select took was not the first one that could proceed
  faults,           \* collaborator calls that failed so far
  sourcePublished   \* the commits a source status was published for

vars == <<cache, renderingStatus, sourceStatus, syncStatus, checkpointed,
          pc, trigger, loc, timers, ctxDone, tasks, log, inFlight, preempted, faults,
          sourcePublished>>

stateVars == <<cache, renderingStatus, sourceStatus, syncStatus, checkpointed>>

\* ------------------------------------------------------ pass history (log)
Ev(e, sub, commit, info, ok, stage) ==
  [e |-> e, sub |-> sub, commit |-> commit, info |-> info, ok |-> ok, stage |-> stage]
\* a status write that was issued at a stage of the pass, with its outcome
WriteEv(sub, commit, info, ok, stage) == Ev("write", sub, commit, info, ok, stage)
\* a call of a collaborator or of a state operation
CallEv(name) == Ev(name, "", NoCommit, {}, TRUE, "")
\* a collaborator returned err (NoErr: it succeeded)
ResultEv(name, err) == Ev(name, "", NoCommit, {err}, err = NoErr, "")
InvalidateEv(errs) == Ev("invalidate", "", NoCommit, errs, TRUE, "")
\* run is called; elapsed: no back-off of the retry logic is pending (the pass
\* before it did not fail, or the back-off that its failure started is over);
\* cp: the state is checkpointed when the case of the trigger is taken;
\* empty: the state is then the one Run starts with
RunEv(elapsed, cp, empty) ==
  Ev("run", "", NoCommit,
     (IF cp THEN {"checkpointed"} ELSE {}) \cup (IF empty THEN {"empty"} ELSE {}), elapsed, "")
\* read returned errs; unchanged: state.cache.source.syncDir is what it was
ReadEv(errs, unchanged) == Ev("read", "", NoCommit, errs, unchanged, "read")


\* --------------------------------------------------- reconcilerState (state)
\* cacheForCommit.parserResultUpToDate
parserResultUpToDate(c) == c.parserResult.has /\ c.parserResult.errs = NoErr

\* cacheForCommit.setParserResult
setParserResult(c, errs) ==
  [c EXCEPT !.parserResult = [has |-> TRUE, errs |-> errs, commit |-> c.source.commit]]

\* Variant of resetCache and of resetAllButSourceState: the cache is kept
keepCache(c) == c

\* reconcilerState.resetCache
resetCache(c) == EmptyCache

\* reconcilerState.resetAllButSourceState
resetAllButSourceState(c) == [EmptyCache EXCEPT !.source = c.source]

\* reconcilerState.invalidate: the cache after it (checkpointed becomes FALSE)
invalidate(c) == [c EXCEPT !.needToRetry = TRUE]

\* reconcilerState.checkpoint: the cache after it (checkpointed becomes TRUE)
checkpoint(c) == [c EXCEPT !.needToRetry = FALSE]

\* cacheForCommit.readyToRetry: whether the back-off that started when the last
\* pass failed is over (time is abstract: both answers after a failure)
BackoffElapsed(c) == IF c.needToRetry THEN BOOLEAN ELSE {TRUE}

\* reconcilerState.needToSetSourceStatus
needToSetSourceStatus(old, new) == new # old

\* reconcilerState.needToSetSyncStatus
needToSetSyncStatus(old, new) == new # old

\* Parser.setRenderingStatus(ctx, prev, new) issues a write unless new equals prev
needToSetRenderingStatus(prev, new) == new # prev

\* status.HasTransientErrors, status.HasBlockingErrors
HasTransientErrors(e) == e = TransientErr
HasBlockingErrors(e) == e = ParseBlocking

\* ------------------------------------------------------------ one pass: run
\* The stages of run are functions on the record st: the fields of the
\* reconciler state the pass has reached, its history (log), gs.commit
\* (commit), the parse errors (sourceErrs) and the stage it is at.
PassStart(c, rs, ss, cp, f) ==
  [cache |-> c, renderingStatus |-> rs, sourceStatus |-> ss, checkpointed |-> cp,
   log |-> <<>>, commit |-> NoCommit, sourceErrs |-> NoErr, at |-> "resolve",
   faults |-> f]

\* A collaborator call of the pass failed (when failed holds)
Failed(failed) == IF failed THEN 1 ELSE 0
Fault(st, failed) == [st EXCEPT !.faults = @ + Failed(failed)]

\* Variant of Invalidate: the retry is marked as needed and checkpointed is kept
InvalidateKeepsCheckpointed(st, errs) ==
  [st EXCEPT !.cache = invalidate(@),
             !.log = Append(@, InvalidateEv(errs)), !.at = "ret"]

\* state.invalidate(errs) followed by the return of run
Invalidate(st, errs) ==
  [st EXCEPT !.cache = invalidate(@), !.checkpointed = FALSE,
             !.log = Append(@, InvalidateEv(errs)), !.at = "ret"]

\* state.reset()
reset(st) ==
  [st EXCEPT !.cache = resetCache(@), !.checkpointed = FALSE,
             !.log = Append(@, CallEv("reset"))]

\* state.syncingConditionLastUpdate is assigned the lastUpdate of the status
\* sub that was given to the status writer
LastUpdateEv(sub) == Ev("lastUpdate", sub, NoCommit, {}, TRUE, "")
\* the log lg after a call of the status writer that logged ev when it wrote
\* (issued), followed by the assignment of the timestamp when assigned holds
Written(lg, issued, ev, assigned) ==
  LET lg1 == IF issued THEN Append(lg, ev) ELSE lg
  IN IF assigned THEN Append(lg1, LastUpdateEv(ev.sub)) ELSE lg1

\* Variant of SetSourceStatus: state.sourceStatus is assigned although the
\* write failed
SetSourceStatusAnyway(st, new, ok) ==
  IF needToSetSourceStatus(st.sourceStatus, new)
  THEN [Fault(st, ~ok) EXCEPT
          !.sourceStatus = new,
          !.log = Written(@, TRUE, WriteEv("source", new.commit, {new.errs}, ok, st.at), TRUE)]
  ELSE st

\* p.setSourceStatus(ctx, new) when needToSetSourceStatus, and the assignment
\* of state.sourceStatus when it succeeds
SetSourceStatus(st, new, ok) ==
  IF needToSetSourceStatus(st.sourceStatus, new)
  THEN [Fault(st, ~ok) EXCEPT
          !.sourceStatus = IF ok THEN new ELSE @,
          !.log = Written(@, TRUE, WriteEv("source", new.commit, {new.errs}, ok, st.at), ok)]
  ELSE st
SetSourceStatusErr(st, new, ok) ==
  IF needToSetSourceStatus(st.sourceStatus, new) /\ ~ok THEN {WriteErr} ELSE {}

\* Variant of SetRenderingStatus: the rendering status is not written
NoRenderingStatus(st, new, ok) == st

\* Variant of SetRenderingStatus: the rendering status is written although it
\* is the published one
SetRenderingStatusAlways(st, new, ok) ==
  [Fault(st, ~ok) EXCEPT
     !.renderingStatus = IF ok THEN new ELSE @,
     !.log = Written(@, TRUE, WriteEv("rendering", new.commit, {new.message}, ok, st.at), ok)]

\* p.setRenderingStatus(ctx, state.renderingStatus, new), and the assignment
\* of state.renderingStatus when it returns no error
SetRenderingStatusErr(st, new, ok) ==
  IF needToSetRenderingStatus(st.renderingStatus, new) /\ ~ok THEN {WriteErr} ELSE {}
SetRenderingStatus(st, new, ok) ==
  LET issued == needToSetRenderingStatus(st.renderingStatus, new)
  IN [Fault(st, issued /\ ~ok) EXCEPT
                !.renderingStatus = IF issued /\ ~ok THEN @ ELSE new,
                !.log = Written(@, issued,
                                WriteEv("rendering", new.commit, {new.message}, ok, st.at),
                                ~(issued /\ ~ok))]

\* run, line 146-166: hydrate.SourceCommitAndDir gives commit c, and fails or not
sourceCommitAndDir(st, c, failed, ok) ==
  LET s1 == [Fault(st, failed) EXCEPT !.log = Append(@, ResultEv("SourceCommitAndDir",
                                                           IF failed THEN SourceErr ELSE NoErr))] IN
  IF ~failed
  THEN [s1 EXCEPT !.commit = c, !.at = "gate"]
  ELSE LET gs == [commit |-> c, errs |-> SourceErr]
       IN Invalidate(SetSourceStatus(s1, gs, ok),
                     statusAppend({SourceErr}, SetSourceStatusErr(s1, gs, ok)))

\* Variant of RenderingStillInProgress: a done file of another commit passes
DoneFileExists(done) == done = "absent"

\* run, line 175: the done file is missing or holds another commit
RenderingStillInProgress(done) == done \in {"absent", "wrong"}

\* run, line 176 and 191: the message that the check of the done file gives
\* the rendering status ("": rendering is done, the pass goes on to read)
DoneFileMessage(done) ==
  IF RenderingStillInProgress(done) THEN RenderingInProgress
  ELSE IF done = "staterr" THEN RenderingFailed
  ELSE ""

\* the done file of commit c was checked
DoneFileEv(c, done) ==
  Ev("doneFile", "", c, {DoneFileMessage(done)}, done # "staterr", "gate")

\* run, line 168-202: done is what os.Stat and hydrate.DoneCommit give
\* Variant of ResetsState: the state is reset whatever the write returned
ResetsAlways(setErr) == TRUE
\* run, line 179: setRenderingStatusErr == nil
ResetsState(setErr) == setErr = {}

renderGate(st, done, ok) ==
  LET s0 == [st EXCEPT !.log = Append(@, DoneFileEv(st.commit, done))] IN
  IF RenderingStillInProgress(done)
  THEN LET rs == [commit |-> st.commit, message |-> RenderingInProgress, errs |-> NoErr]
           setErr == SetRenderingStatusErr(s0, rs, ok)
           s1 == SetRenderingStatus(s0, rs, ok)
       IN IF ResetsState(setErr)
          THEN [reset(s1) EXCEPT !.at = "ret"]
          ELSE Invalidate(s1, setErr)
  ELSE IF done = "staterr"
  THEN LET rs == [commit |-> st.commit, message |-> RenderingFailed, errs |-> HydrationErr]
           s1 == Fault(s0, TRUE)
       IN Invalidate(SetRenderingStatus(s1, rs, ok),
                     statusAppend({HydrationErr}, SetRenderingStatusErr(s1, rs, ok)))
  ELSE [s0 EXCEPT !.at = "read"]

\* Variant of SourceStateToRead: the hydrated directory is read always
HydratedSourceState(c) == [commit |-> c, syncDir |-> HydratedDir(c)]

\* readFromSource, line 296-321: the source state of commit c that is read,
\* the hydrated directory when it exists and the source directory otherwise
SourceStateToRead(c) ==
  IF c \in HydratedCommits
  THEN [commit |-> c, syncDir |-> HydratedDir(c)]
  ELSE [commit |-> c, syncDir |-> RawDir(c)]

\* readFromSource returned the rendering status hs
HydrationEv(hs) == Ev("readFromSource", "", hs.commit, {hs.message}, hs.errs = NoErr, "read")

\* Variant of readFromSource: the source state is cached although
\* readConfigFiles failed
readFromSourceKeepsSnapshot(st, hyd, files) ==
  LET hs0 == [commit |-> st.commit, message |-> "", errs |-> NoErr]
      ss0 == [commit |-> st.commit, errs |-> NoErr]
      hydrated == st.commit \in HydratedCommits
      sourceState == SourceStateToRead(st.commit)
  IN IF hyd \in {"error", "transient"}
     THEN [hs |-> [hs0 EXCEPT !.message = RenderingFailed,
                              !.errs = IF hyd = "error" THEN HydrationErr ELSE TransientErr],
           ss |-> ss0, st |-> Fault(st, TRUE)]
     ELSE LET hs == [hs0 EXCEPT !.message = IF hydrated THEN RenderingSucceeded
                                            ELSE RenderingSkipped]
          IN IF sourceState.syncDir = st.cache.source.syncDir
             THEN [hs |-> hs, ss |-> ss0, st |-> st]
             ELSE [hs |-> hs,
                   ss |-> [ss0 EXCEPT !.errs = IF files = "ok" THEN NoErr
                                               ELSE IF files = "error" THEN SourceErr
                                               ELSE TransientErr],
                   st |-> [Fault(st, files # "ok") EXCEPT
                             !.cache = [resetCache(@) EXCEPT !.source = sourceState],
                             !.log = Append(@, Ev("readConfigFiles", "", sourceState.commit,
                                                  {sourceState.syncDir}, files = "ok",
                                                  "read"))]]

\* readFromSource: hyd is what the hydrated root gives ("ok": os.Stat and
\* readHydratedDir succeed or the root does not exist, as the commit needs),
\* files what readConfigFiles gives.  The result is the rendering status,
\* the source status and the pass state it leaves.
readFromSource(st, hyd, files) ==
  LET hs0 == [commit |-> st.commit, message |-> "", errs |-> NoErr]
      ss0 == [commit |-> st.commit, errs |-> NoErr]
      hydrated == st.commit \in HydratedCommits
      sourceState == SourceStateToRead(st.commit)
  IN IF hyd \in {"error", "transient"}
     THEN [hs |-> [hs0 EXCEPT !.message = RenderingFailed,
                              !.errs = IF hyd = "error" THEN HydrationErr ELSE TransientErr],
           ss |-> ss0, st |-> Fault(st, TRUE)]
     ELSE LET hs == [hs0 EXCEPT !.message = IF hydrated THEN RenderingSucceeded
                                            ELSE RenderingSkipped]
          IN IF sourceState.syncDir = st.cache.source.syncDir
             THEN [hs |-> hs, ss |-> ss0, st |-> st]
             ELSE [hs |-> hs,
                   ss |-> [ss0 EXCEPT !.errs = IF files = "ok" THEN NoErr
                                               ELSE IF files = "error" THEN SourceErr
                                               ELSE TransientErr],
                   st |-> [Fault(st, files # "ok") EXCEPT
                             !.cache = IF files = "ok"
                                       THEN [resetCache(@) EXCEPT !.source = sourceState]
                                       ELSE resetCache(@),
                             !.log = Append(@, Ev("readConfigFiles", "", sourceState.commit,
                                                  {sourceState.syncDir}, files = "ok",
                                                  "read"))]]

\* read, line 270-280: the error of the source-status write is assigned to a
\* variable that shadows the returned one, so it is not part of the result
readSetSourceStatusErr(setErr) == {}

\* Variant of ReturnsTransientErrors: transient errors are treated as the others
SurfacesTransientErrors(hs, ss) == FALSE

\* read, line 243-248: transient errors are returned before any status write
ReturnsTransientErrors(hs, ss) ==
  HasTransientErrors(hs.errs) \/ HasTransientErrors(ss.errs)

\* read: the errors it returns (errs) and the pass state it leaves (st)
read(st, hyd, files, okR, okS) ==
  LET r0 == readFromSource(st, hyd, files)
      r == [r0 EXCEPT !.st.log = Append(@, HydrationEv(r0.hs))]
  IN
  IF ReturnsTransientErrors(r.hs, r.ss)
  THEN [errs |-> {TransientErr}, st |-> r.st]
  ELSE LET s1 == SetRenderingStatus(r.st, r.hs, okR)
           renderingErrs == statusAppend({r.hs.errs}, SetRenderingStatusErr(r.st, r.hs, okR))
       IN IF renderingErrs # {} THEN [errs |-> renderingErrs, st |-> s1]
          ELSE IF r.ss.errs = NoErr THEN [errs |-> {}, st |-> s1]
          ELSE [errs |-> statusAppend({r.ss.errs},
                                      readSetSourceStatusErr(SetSourceStatusErr(s1, r.ss, okS))),
                st |-> SetSourceStatus(s1, r.ss, okS)]

\* Variant of SkipParseAndUpdate: run never skips the parse-apply-watch sequence
NeverSkipParseAndUpdate(trg, oldSyncDir, newSyncDir) == FALSE

\* run, line 223: the parse-apply-watch sequence is skipped
SkipParseAndUpdate(trg, oldSyncDir, newSyncDir) ==
  trg = triggerReimport /\ oldSyncDir = newSyncDir

\* run, line 204-225: read and what run does with its result
readStage(st, trg, hyd, files, okR, okS) ==
  LET oldSyncDir == st.cache.source.syncDir
      r == read(st, hyd, files, okR, okS)
      newSyncDir == r.st.cache.source.syncDir
      s1 == [r.st EXCEPT !.log = Append(@, ReadEv(r.errs, oldSyncDir = newSyncDir))]
  IN IF r.errs # {} THEN Invalidate(s1, r.errs)
     ELSE IF SkipParseAndUpdate(trg, oldSyncDir, newSyncDir)
     THEN [s1 EXCEPT !.at = "ret"]
     ELSE [s1 EXCEPT !.at = "parse"]

\* parseSource: parsed is what p.parseSource gives when it is called
parseSource(st, parsed) ==
  IF parserResultUpToDate(st.cache)
  THEN [st EXCEPT !.sourceErrs = NoErr]
  ELSE [Fault(st, parsed # NoErr) EXCEPT
          !.cache = setParserResult(@, parsed), !.sourceErrs = parsed,
          !.log = Append(@, ResultEv("parseSource", parsed))]

\* Variant of StopOnSourceStatusError: parseAndUpdate goes on to Update although
\* the source-status write failed
ContinueOnSourceStatusError(setErr) == FALSE

\* parseAndUpdate, line 380-385: a failed source-status write ends the pass
StopOnSourceStatusError(setErr) == setErr # {}

\* Variant of StopOnBlockingErrors: parseAndUpdate goes on to Update although
\* the source errors are blocking
ApplyDespiteBlockingErrors(sourceErrs) == FALSE

\* Variant of StopOnBlockingErrors: any source error ends the pass before Update
StopOnAnyErrors(sourceErrs) == sourceErrs # NoErr

\* parseAndUpdate, line 390-392: blocking source errors end the pass
StopOnBlockingErrors(sourceErrs) == HasBlockingErrors(sourceErrs)

\* parseAndUpdate, line 369-392, and what run does when it returns there
parseStage(st, parsed, ok) ==
  LET s1 == parseSource([st EXCEPT !.log = Append(@, CallEv("parseAndUpdate"))], parsed)
      new == [commit |-> s1.cache.source.commit, errs |-> s1.sourceErrs]
      setErr == SetSourceStatusErr(s1, new, ok)
      s2 == SetSourceStatus(s1, new, ok)
  IN IF StopOnSourceStatusError(setErr)
     THEN Invalidate(s2, statusAppend({s1.sourceErrs}, setErr))
     ELSE IF StopOnBlockingErrors(s1.sourceErrs)
     THEN Invalidate(s2, {s1.sourceErrs})
     ELSE [s2 EXCEPT !.at = "apply"]

\* The inputs of the stages; an input that the stage does not look at (a
\* write that is not issued, files that are not read) has one value
ResolveInputs ==
  {<<c, f, ok>> \in (Commits \cup {NoCommit}) \X BOOLEAN \X BOOLEAN :
     (c = NoCommit => f) /\ (~f => ok)}
GateInputs == {"absent", "wrong", "staterr", "match"} \X BOOLEAN
ReadInputs ==
  {i \in {"ok", "error", "transient"} \X {"ok", "error", "transient"} \X BOOLEAN \X BOOLEAN :
     /\ i[1] # "ok" => i[2] = "ok"
     /\ (i[1] = "transient" \/ i[2] = "transient") => i[3]
     /\ (i[1] # "ok" \/ i[2] # "error") => i[4]}
ParseInputs == {NoErr, ParseNonBlocking, ParseBlocking} \X BOOLEAN

\* Every pass state that stage f can leave, from the pass states in S that
\* are at that stage; the others are kept
Resolved(S) ==
  {sourceCommitAndDir(s, i[1], i[2], i[3]) : s \in S, i \in ResolveInputs}
Gated(S) ==
  {s \in S : s.at # "gate"}
    \cup {renderGate(s, i[1], i[2]) : s \in {x \in S : x.at = "gate"}, i \in GateInputs}
Read(S, trg) ==
  {s \in S : s.at # "read"}
    \cup {readStage(s, trg, i[1], i[2], i[3], i[4]) :
            s \in {x \in S : x.at = "read"}, i \in ReadInputs}
Parsed(S) ==
  {s \in S : s.at # "parse"}
    \cup {parseStage(s, i[1], i[2]) : s \in {x \in S : x.at = "parse"}, i \in ParseInputs}

\* run up to the start of the periodic goroutine: every state it can reach
\* with no more failing collaborator calls than MaxFaults
\* The pass states of S that stay within the bound of failing calls
WithinFaults(S) == {o \in S : o.faults <= MaxFaults}
PassOutcomes(trg, st) ==
  WithinFaults(Parsed(WithinFaults(Read(WithinFaults(Gated(WithinFaults(Resolved({st})))),
                                        trg))))

\* ------------------------------------------------------------------ timers
\* Time is abstract.  A timer is "armed" when it runs or has expired with its
\* value still in the channel (its case can proceed, now or later), "idle"
\* when it was received and not reset, and "stale" when it was reset although
\* its channel still held a value (the value stays and the timer runs again).
\* Only the retry timer is reset by cases that did not receive from it and can
\* be left idle, so only for it is "stale" told from "armed".  A timer that is
\* "untracked" stands for all of them: it may deliver a value at any moment.
NewTimer == "armed"
Untracked == "untracked"
\* a receive from the timer's channel
Receive(tm, t) ==
  [tm EXCEPT ![t] = IF @ = Untracked THEN @ ELSE IF @ = "stale" THEN "armed" ELSE "idle"]
\* Timer.Reset of the timers ts: an idle timer runs again; for a timer that
\* was not received since it was armed, keep tells whether a value that
\* arrived in its channel is still there afterwards
ResetTimers(tm, ts, keep) ==
  [t \in TimerNames |->
     IF t \notin ts \/ tm[t] = Untracked THEN tm[t]
     ELSE IF tm[t] = "idle" THEN "armed"
     ELSE IF keep /\ t = "retry" THEN "stale" ELSE "armed"]

\* The cases of the select statement of Run, in the order they are written
Cases == {"cancel", "resync", "poll", "retry", "statusUpdate"}
CaseOrder(c) ==
  CASE c = "cancel" -> 1 [] c = "resync" -> 2 [] c = "poll" -> 3
    [] c = "retry" -> 4 [] c = "statusUpdate" -> 5

\* Variant of AtSelect: the cases of select start their handlers without
\* waiting for the handler in progress (as with "go run(...)")
AnyTime == pc # "done"

\* The driver is blocked in the select statement of the Run loop: the
\* handlers are called in the case bodies, so the loop only selects again
\* when the handler has returned
AtSelect == pc = "select"

\* The case can proceed at some moment of the wait
CanProceed(c) == IF c = "cancel" THEN ctxDone ELSE timers[c] # "idle"

\* select takes case c: when several cases can proceed, Go's select takes
\* any one of them
SelectCase(c) == AtSelect /\ CanProceed(c)

\* Whether select, taking case c, passed over a case written before c that
\* could proceed at that moment: both answers, when there is such a case
\* whose timer is tracked
Preempted(c) ==
  {FALSE} \cup {TRUE : d \in {d \in Cases : /\ CaseOrder(d) < CaseOrder(c)
                                            /\ CanProceed(d)
                                            /\ d # "cancel" => timers[d] # Untracked}}

Loc0 == [syncErrs |-> NoErr, conflict |-> FALSE, sourceErrs |-> NoErr,
         new |-> EmptySyncStatus, write |-> FALSE]

\* Run, line 57-71: the state at the first select
InitState ==
  /\ cache = EmptyCache
  /\ renderingStatus = EmptyRenderingStatus
  /\ sourceStatus = EmptySourceStatus
  /\ syncStatus = EmptySyncStatus
  /\ checkpointed = FALSE
  /\ pc = "select"
  /\ trigger = NoTrigger
  /\ loc = Loc0
  /\ ctxDone = FALSE
  /\ tasks = {}
  /\ log = <<>>
  /\ inFlight = 0
  /\ preempted = FALSE
  /\ sourcePublished = {}

\* No call has failed yet
Init0 == InitState /\ faults = 0

\* The timers are not tracked: every timer case can proceed at every select
Init == Init0 /\ timers = [t \in TimerNames |-> Untracked]

\* As Init, with room for MaxPassFaults failing calls: the count of the failed
\* calls starts below zero
InitPass ==
  /\ InitState
  /\ faults = MaxFaults - MaxPassFaults
  /\ timers = [t \in TimerNames |-> Untracked]

\* The four timers of Run are tracked
InitRun == Init0 /\ timers = [t \in TimerNames |-> NewTimer]

\* The parent context is cancelled
Cancel ==
  /\ pc \in {"select", "sleep"}
  /\ ~ctxDone
  /\ ctxDone' = TRUE
  /\ log' = IF pc = "sleep" THEN Append(log, CallEv("ctx cancelled")) ELSE log
  /\ UNCHANGED <<stateVars, pc, trigger, loc, timers, tasks, inFlight, preempted,
                 faults, sourcePublished>>

\* ---------------------------------------------------------------- Run loop
\* case <-ctx.Done()
RunCancel ==
  /\ SelectCase("cancel")
  /\ preempted' \in Preempted("cancel")
  /\ pc' = "done"
  /\ UNCHANGED <<stateVars, trigger, loc, timers, ctxDone, tasks, log, inFlight,
                 faults, sourcePublished>>

NewTask == [pc |-> "select", new |-> EmptySyncStatus, done |-> FALSE, own |-> TRUE]

\* go updateSyncStatusPeriodically(ctxForUpdateSyncStatus, p, state)
StartPeriodic(ts) == ts \cup {NewTask}

\* The commits of the source statuses a pass with history lg published
SourceCommitsPublished(lg) ==
  {lg[i].commit : i \in {j \in 1..Len(lg) : lg[j].e = "write" /\ lg[j].sub = "source"
                                             /\ lg[j].ok}}

\* run(ctx, p, trigger, state) from the cache c and with checkpointed cp, up
\* to the call of Update or, when it does not get there, to its return
\* the reconciler state is the one Run starts with, and nothing is published
EmptyState ==
  /\ cache = EmptyCache
  /\ renderingStatus = EmptyRenderingStatus
  /\ sourceStatus = EmptySourceStatus
  /\ syncStatus = EmptySyncStatus
  /\ ~checkpointed

\* run(ctx, p, trg, state) up to Update, or up to its return when it returns
\* before; first is the start of the history of the pass
PassFrom(trg, c, cp, first) ==
  /\ \E o \in PassOutcomes(trg, [PassStart(c, renderingStatus, sourceStatus, cp, faults)
                                    EXCEPT !.log = <<first>>]) :
       /\ o.at = "apply" => Cardinality(tasks) < MaxTasks
       /\ cache' = o.cache
       /\ renderingStatus' = o.renderingStatus
       /\ sourceStatus' = o.sourceStatus
       /\ checkpointed' = o.checkpointed
       /\ loc' = IF o.at = "apply" THEN [Loc0 EXCEPT !.sourceErrs = o.sourceErrs] ELSE Loc0
       /\ pc' = o.at
       /\ faults' = o.faults
       /\ sourcePublished' = sourcePublished \cup SourceCommitsPublished(o.log)
       /\ tasks' = IF o.at = "apply" THEN StartPeriodic(tasks) ELSE tasks
       /\ log' = IF o.at = "apply" THEN Append(o.log, CallEv("startPeriodic")) ELSE o.log
  /\ trigger' = trg
  /\ inFlight' = inFlight + 1
  /\ UNCHANGED <<syncStatus, ctxDone>>

Pass(trg, c, cp, elapsed) == PassFrom(trg, c, cp, RunEv(elapsed, checkpointed, EmptyState))

\* case <-resyncTimer.C
RunResync ==
  /\ SelectCase("resync")
  /\ timers' = Receive(timers, "resync")
  /\ \E elapsed \in BackoffElapsed(cache) :
       Pass(triggerResync, resetAllButSourceState(cache), FALSE, elapsed)
  /\ preempted' \in Preempted("resync")

\* case <-runTimer.C
RunReimport ==
  /\ SelectCase("poll")
  /\ timers' = Receive(timers, "poll")
  /\ \E elapsed \in BackoffElapsed(cache) :
       Pass(triggerReimport, cache, checkpointed, elapsed)
  /\ preempted' \in Preempted("poll")

\* Variant of RetryTrigger: the retry trigger does not wait for readyToRetry
RetryTriggerAtOnce(conflict, ready, watch) ==
  IF conflict THEN triggerManagementConflict
  ELSE IF cache.needToRetry THEN triggerRetry
  ELSE IF watch THEN triggerWatchUpdate
  ELSE NoTrigger

\* Variant of RetryTrigger: the retry that is needed and ready comes before
\* the management conflict
RetryBeforeConflict(conflict, ready, watch) ==
  IF cache.needToRetry /\ ready THEN triggerRetry
  ELSE IF conflict THEN triggerManagementConflict
  ELSE IF watch THEN triggerWatchUpdate
  ELSE NoTrigger

\* case <-retryTimer.C: the trigger chosen from opts.managementConflict(),
\* state.cache.readyToRetry() and opts.needToUpdateWatch()
RetryTrigger(conflict, ready, watch) ==
  IF conflict THEN triggerManagementConflict
  ELSE IF cache.needToRetry /\ ready THEN triggerRetry
  ELSE IF watch THEN triggerWatchUpdate
  ELSE NoTrigger

\* The triggers the case can choose, each with the answer of readyToRetry
RetryTriggers ==
  {<<RetryTrigger(conflict, ready, watch), ready>> :
     conflict \in BOOLEAN, ready \in BackoffElapsed(cache), watch \in BOOLEAN}

\* case <-retryTimer.C; sleeps: the wait of line 110 is a state of its own
RetryCase(sleeps) ==
  /\ SelectCase("retry")
  /\ timers' = Receive(timers, "retry")
  /\ \E choice \in RetryTriggers :
       LET trg == choice[1]
           elapsed == choice[2]
       IN
       IF trg = NoTrigger
       THEN \* continue: nothing runs and no timer is reset
            UNCHANGED <<stateVars, pc, trigger, loc, ctxDone, tasks, log, inFlight,
                 faults, sourcePublished>>
       ELSE IF trg = triggerManagementConflict
       THEN IF sleeps
            THEN \* time.Sleep(opts.pollingPeriod), after the reset of the state
                 /\ cache' = resetAllButSourceState(cache)
                 /\ log' = <<RunEv(elapsed, checkpointed, EmptyState)>>
                 /\ trigger' = trg
                 /\ pc' = "sleep"
                 /\ UNCHANGED <<renderingStatus, sourceStatus, syncStatus, checkpointed, loc,
                                ctxDone, tasks, inFlight, faults, sourcePublished>>
            ELSE Pass(trg, resetAllButSourceState(cache), FALSE, elapsed)
       ELSE Pass(trg, cache, checkpointed, elapsed)
  /\ preempted' \in Preempted("retry")

\* the wait before a managementConflict pass is part of the step of the pass
RunRetryTimer == RetryCase(FALSE)
\* the wait before a managementConflict pass is a state of its own
RunRetryTimerSleeps == RetryCase(TRUE)
\* time.Sleep returns and run is called, line 121
RunAfterSleep ==
  /\ pc = "sleep"
  /\ PassFrom(trigger, cache, FALSE, log[1])
  /\ UNCHANGED <<timers, preempted>>

\* The timers a case re-arms after run returned
\* Variant of TimersToReset: every pass resets the four timers
AllTimers(trg) == TimerNames
\* Variant of TimersToReset: the resync and the reimport case leave the retry
\* timer alone
WithoutRetryTimer(trg) ==
  CASE trg = triggerResync -> {"resync", "statusUpdate"}
    [] trg = triggerReimport -> {"poll", "statusUpdate"}
    [] OTHER -> {"retry", "statusUpdate"}
\* Run, line 89-91, 97-99, 123-124: the timers reset after the pass of trigger trg
TimersToReset(trg) ==
  CASE trg = triggerResync -> {"resync", "retry", "statusUpdate"}
    [] trg = triggerReimport -> {"poll", "retry", "statusUpdate"}
    [] OTHER -> {"retry", "statusUpdate"}

\* run returned: the case re-arms its timers and the loop selects again
\* the timers ts were reset at the end of a case of the select
ResetEv(ts) == Ev("Reset", "", NoCommit, ts, TRUE, "")

\* run has returned to Run: the timers of the case are reset and the loop is
\* at its select again; history is what is kept of the pass
ReturnToSelect(history) ==
  /\ pc = "ret"
  /\ \E keep \in BOOLEAN : timers' = ResetTimers(timers, TimersToReset(trigger), keep)
  /\ pc' = "select"
  /\ trigger' = NoTrigger
  /\ loc' = Loc0
  /\ log' = history
  /\ inFlight' = inFlight - 1
  /\ tasks' = {[t EXCEPT !.own = FALSE] : t \in tasks}
  /\ preempted' = FALSE
  /\ UNCHANGED <<stateVars, ctxDone, faults, sourcePublished>>

\* nothing of the pass is kept
RunAfterPass == ReturnToSelect(<<>>)
\* the resets of the timers are kept
RunResetTimers == ReturnToSelect(<<ResetEv(TimersToReset(trigger))>>)

\* --------------------------------------------------------------- setSyncStatus
\* setSyncStatus, line 421-426: the status it is about to publish
NewSyncStatus(c, syncing, errs) ==
  [commit |-> c.source.commit, syncing |-> syncing, errs |-> errs]

SyncInfo(st) == {IF st.syncing THEN "syncing=true" ELSE "syncing=false", st.errs}

\* Variant of ReportsConflicts: conflicts are reported although the status
\* write failed
ReportsDespiteFailedWrite(writeFailed, conflict) == conflict

\* setSyncStatus, line 427-447: conflicts are reported after the status write,
\* unless that write failed; conflict tells whether syncErrs holds
\* management conflict errors
ReportsConflicts(writeFailed, conflict) == ~writeFailed /\ conflict

\* Variant of SetSyncStatusErr: the error of setSyncStatus is dropped
NoSetSyncStatusErr(writeFailed, conflict, reportOk) == {}

\* The error setSyncStatus returns
SetSyncStatusErr(writeFailed, conflict, reportOk) ==
  IF writeFailed THEN {WriteErr}
  ELSE IF ReportsConflicts(writeFailed, conflict) /\ ~reportOk THEN {ReportErr}
  ELSE {}

\* ------------------------------------------------ parseAndUpdate, second half
\* cancel(): the context of the goroutine started by this pass is cancelled
cancel(ts) == {IF t.own THEN [t EXCEPT !.done = TRUE] ELSE t : t \in ts}

\* p.options().Update returns syncErrs; cancel(); setSyncStatus(ctx, p, state,
\* false, syncErrs) up to its call of p.SetSyncStatus
RunUpdate ==
  /\ pc = "apply"
  /\ \E e \in SyncErrKinds, conflict \in BOOLEAN :
       /\ conflict => e = ApplyErr
       /\ faults' = faults + Failed(e # NoErr)
       /\ faults' <= MaxFaults
       /\ LET new == NewSyncStatus(cache, FALSE, e)
          IN loc' = [loc EXCEPT !.syncErrs = e, !.conflict = conflict, !.new = new,
                                !.write = needToSetSyncStatus(syncStatus, new)]
       /\ log' = Append(Append(log, ResultEv("Update", e)), CallEv("cancel"))
  /\ tasks' = cancel(tasks)
  /\ pc' = "postApplyWait"
  /\ preempted' = FALSE
  /\ UNCHANGED <<stateVars, trigger, timers, ctxDone, inFlight, sourcePublished>>

\* Variant of PassErrs: the error of setSyncStatus is dropped
ApplyErrsOnly(sourceErrs, syncErrs, setErr) == statusAppend({sourceErrs}, {syncErrs})
\* parseAndUpdate, line 409-413: the errors parseAndUpdate returns after
\* setSyncStatus returned setErr
PassErrs(sourceErrs, syncErrs, setErr) ==
  statusAppend({sourceErrs}, statusAppend({syncErrs}, setErr))

\* p.SetSyncStatus returns, conflicts are reported, parseAndUpdate returns and
\* run checkpoints or invalidates
RunSetSyncStatusDone ==
  /\ pc = "postApplyWait"
  /\ \E ok \in BOOLEAN, reportOk \in BOOLEAN :
       LET written == loc.write /\ ok
           writeFailed == loc.write /\ ~ok
           setErr == SetSyncStatusErr(writeFailed, loc.conflict, reportOk)
           lg1 == Written(log, loc.write,
                          WriteEv("sync", loc.new.commit, SyncInfo(loc.new), ok, "postApply"),
                          written)
           lg2 == IF ReportsConflicts(writeFailed, loc.conflict)
                  THEN Append(lg1, Ev("report", "", NoCommit, {}, reportOk, "postApply"))
                  ELSE lg1
           errs == PassErrs(loc.sourceErrs, loc.syncErrs, setErr)
       IN /\ faults' = faults + Failed(writeFailed)
                               + Failed(ReportsConflicts(writeFailed, loc.conflict) /\ ~reportOk)
          /\ faults' <= MaxFaults
          /\ syncStatus' = IF written THEN loc.new ELSE syncStatus
          /\ IF errs # {}
             THEN /\ cache' = invalidate(cache)
                  /\ checkpointed' = FALSE
                  /\ log' = Append(lg2, InvalidateEv(errs))
             ELSE /\ cache' = checkpoint(cache)
                  /\ checkpointed' = TRUE
                  /\ log' = Append(lg2, CallEv("checkpoint"))
  /\ pc' = "ret"
  /\ loc' = Loc0
  /\ preempted' = FALSE
  /\ UNCHANGED <<renderingStatus, sourceStatus, trigger, timers, ctxDone, tasks, inFlight,
                 sourcePublished>>

\* ------------------------------------------- Run loop: case <-statusUpdateTimer.C
\* Variant of CommitsUpToDate: the SyncStatus is written whatever the commits
AnyCommits == TRUE

\* Run, line 131-132
CommitsUpToDate ==
  syncStatus.commit = sourceStatus.commit /\ syncStatus.commit = renderingStatus.commit

\* p.Syncing(): the applier is syncing while Update runs
Syncing == pc = "apply"

\* case <-statusUpdateTimer.C, up to the call of p.SetSyncStatus; conflict
\* tells whether p.SyncErrors() holds management conflicts with a RootSync;
\* history is what is kept when the case ends here
StatusUpdateTick(history) ==
  /\ SelectCase("statusUpdate")
  /\ preempted' \in Preempted("statusUpdate")
  /\ IF CommitsUpToDate
     THEN /\ timers' = Receive(timers, "statusUpdate")
          /\ \E e \in SyncErrKinds, conflict \in BOOLEAN :
               /\ conflict => e = ApplyErr
               /\ LET new == NewSyncStatus(cache, Syncing, e)
                  IN loc' = [loc EXCEPT !.new = new, !.syncErrs = e, !.conflict = conflict,
                                        !.write = needToSetSyncStatus(syncStatus, new)]
          /\ pc' = "statusWait"
          /\ inFlight' = inFlight + 1
          /\ UNCHANGED log
     ELSE /\ \E keep \in BOOLEAN :
               timers' = ResetTimers(Receive(timers, "statusUpdate"), {"statusUpdate"}, keep)
          /\ log' = history
          /\ UNCHANGED <<pc, loc, inFlight>>
  /\ UNCHANGED <<stateVars, trigger, ctxDone, tasks, faults, sourcePublished>>

RunStatusUpdate == StatusUpdateTick(log)
\* the reset of the timer is kept
RunStatusUpdateResets == StatusUpdateTick(<<ResetEv({"statusUpdate"})>>)

\* p.SetSyncStatus returns, the conflicts are reported unless the write
\* failed, an error of setSyncStatus is logged and the case re-arms its timer
StatusUpdateDone(history) ==
  /\ pc = "statusWait"
  /\ \E ok \in BOOLEAN, reportOk \in BOOLEAN :
       /\ faults' = faults + Failed(loc.write /\ ~ok)
                            + Failed(ReportsConflicts(loc.write /\ ~ok, loc.conflict) /\ ~reportOk)
       /\ faults' <= MaxFaults
       /\ syncStatus' = IF loc.write /\ ok THEN loc.new ELSE syncStatus
  /\ \E keep \in BOOLEAN : timers' = ResetTimers(timers, {"statusUpdate"}, keep)
  /\ pc' = "select"
  /\ loc' = Loc0
  /\ inFlight' = inFlight - 1
  /\ preempted' = FALSE
  /\ log' = history
  /\ UNCHANGED <<cache, renderingStatus, sourceStatus, checkpointed, trigger, ctxDone,
                 tasks, sourcePublished>>

RunStatusUpdateDone == StatusUpdateDone(log)
\* the reset of the timer is kept
RunStatusUpdateDoneResets == StatusUpdateDone(<<ResetEv({"statusUpdate"})>>)

\* ------------------------------------------------ updateSyncStatusPeriodically
\* case <-updateTimer.C: setSyncStatus(ctx, p, state, true, p.SyncErrors()) up
\* to its call of p.SetSyncStatus.  select may take this case although
\* ctx.Done() is closed as well, when the timer has expired too.
TaskTick(t) ==
  /\ t \in tasks
  /\ t.pc = "select"
  /\ \E e \in SyncErrKinds :
       LET new == NewSyncStatus(cache, TRUE, e)
       IN /\ needToSetSyncStatus(syncStatus, new)
          /\ tasks' = (tasks \ {t}) \cup {[t EXCEPT !.pc = "write", !.new = new]}
  /\ UNCHANGED <<stateVars, pc, trigger, loc, timers, ctxDone, log, inFlight, preempted,
                 faults, sourcePublished>>

\* p.SetSyncStatus returns in the goroutine, which assigns state.syncStatus
TaskWriteDone(t) ==
  /\ t \in tasks
  /\ t.pc = "write"
  /\ \E ok \in BOOLEAN :
       /\ faults' = faults + Failed(~ok)
       /\ faults' <= MaxFaults
       /\ syncStatus' = IF ok THEN t.new ELSE syncStatus
  /\ tasks' = (tasks \ {t}) \cup {[t EXCEPT !.pc = "select", !.new = EmptySyncStatus]}
  /\ UNCHANGED <<cache, renderingStatus, sourceStatus, checkpointed, pc, trigger, loc,
                 timers, ctxDone, log, inFlight, preempted, sourcePublished>>

\* case <-ctx.Done(): the goroutine returns
TaskExit(t) ==
  /\ t \in tasks
  /\ t.pc = "select"
  /\ t.done
  /\ tasks' = tasks \ {t}
  /\ UNCHANGED <<stateVars, pc, trigger, loc, timers, ctxDone, log, inFlight, preempted,
                 faults, sourcePublished>>

PeriodicTick == \E t \in tasks : TaskTick(t)
PeriodicWriteDone == \E t \in tasks : TaskWriteDone(t)
PeriodicExit == \E t \in tasks : TaskExit(t)

\* The reconciler without cancellation of its context
Next ==
  \/ RunResync
  \/ RunReimport
  \/ RunRetryTimer
  \/ RunStatusUpdate
  \/ RunStatusUpdateDone
  \/ RunUpdate
  \/ RunSetSyncStatusDone
  \/ RunAfterPass
  \/ PeriodicTick
  \/ PeriodicWriteDone
  \/ PeriodicExit

Spec == Init /\ [][Next]_vars

\* The Run loop with its timers and its context; the goroutine of a pass
\* only starts and exits
NextRun ==
  \/ Cancel
  \/ RunCancel
  \/ RunResync
  \/ RunReimport
  \/ RunRetryTimer
  \/ RunStatusUpdate
  \/ RunStatusUpdateDone
  \/ RunUpdate
  \/ RunSetSyncStatusDone
  \/ RunAfterPass
  \/ PeriodicExit

SpecRun == InitRun /\ [][NextRun]_vars

\* As NextRun, with the wait before a managementConflict pass as a state in
\* which the context can be cancelled
NextCancel ==
  \/ Cancel
  \/ RunCancel
  \/ RunResync
  \/ RunReimport
  \/ RunRetryTimerSleeps
  \/ RunAfterSleep
  \/ RunStatusUpdate
  \/ RunStatusUpdateDone
  \/ RunUpdate
  \/ RunSetSyncStatusDone
  \/ RunAfterPass
  \/ PeriodicExit

SpecCancel == InitRun /\ [][NextCancel]_vars

\* The passes alone: no status update between them, and the goroutine of a
\* pass only starts and exits
NextPass ==
  \/ RunResync
  \/ RunReimport
  \/ RunRetryTimer
  \/ RunUpdate
  \/ RunSetSyncStatusDone
  \/ RunAfterPass
  \/ PeriodicExit

SpecPass == InitPass /\ [][NextPass]_vars

\* ------------------------------------------- the Run loop, case by case
\* The case of a trigger up to its call of run: the state operation of the
\* case is done (the cache is c and checkpointed is cp) and run(ctx, p, trg,
\* state) is called
CallRun(trg, c, cp, elapsed) ==
  /\ cache' = c
  /\ checkpointed' = cp
  /\ log' = <<RunEv(elapsed, checkpointed, EmptyState)>>
  /\ trigger' = trg
  /\ pc' = "run"
  /\ UNCHANGED <<renderingStatus, sourceStatus, syncStatus, loc, ctxDone, tasks, inFlight,
                 faults, sourcePublished>>

\* case <-resyncTimer.C, line 82-87
CallResync ==
  /\ SelectCase("resync")
  /\ timers' = Receive(timers, "resync")
  /\ \E elapsed \in BackoffElapsed(cache) :
       CallRun(triggerResync, resetAllButSourceState(cache), FALSE, elapsed)
  /\ preempted' \in Preempted("resync")

\* case <-runTimer.C, line 94-95
CallReimport ==
  /\ SelectCase("poll")
  /\ timers' = Receive(timers, "poll")
  /\ \E elapsed \in BackoffElapsed(cache) :
       CallRun(triggerReimport, cache, checkpointed, elapsed)
  /\ preempted' \in Preempted("poll")

\* case <-retryTimer.C, line 102-121
CallRetry ==
  /\ SelectCase("retry")
  /\ timers' = Receive(timers, "retry")
  /\ \E choice \in RetryTriggers :
       IF choice[1] = NoTrigger
       THEN UNCHANGED <<stateVars, pc, trigger, loc, ctxDone, tasks, log, inFlight,
                        faults, sourcePublished>>
       ELSE IF choice[1] = triggerManagementConflict
       THEN CallRun(choice[1], resetAllButSourceState(cache), FALSE, choice[2])
       ELSE CallRun(choice[1], cache, checkpointed, choice[2])
  /\ preempted' \in Preempted("retry")

\* the retry case finds the retry needed and ready, line 111-113
CallRetryReady == CallRetry /\ trigger' = triggerRetry

\* run(ctx, p, trigger, state), line 145-235, up to Update or to its return
RunCalled ==
  /\ pc = "run"
  /\ PassFrom(trigger, cache, checkpointed, log[1])
  /\ UNCHANGED <<timers, preempted>>

\* The passes alone with the timers tracked, the context never cancelled
NextFair ==
  \/ CallResync
  \/ CallReimport
  \/ CallRetry
  \/ RunCalled
  \/ RunUpdate
  \/ RunSetSyncStatusDone
  \/ RunAfterPass
  \/ PeriodicExit

\* Every call of a collaborator returns, so run is not in progress for ever
\* and the steps after Update follow; the goroutine of a pass exits once it
\* is cancelled (weak fairness).  The poll timer is reset after its own case
\* and expires again, and select takes any of the cases that can proceed, so
\* the reimport case, which can proceed at infinitely many selects, is taken
\* (strong fairness); the back-off of a failed pass is a finite time, so of
\* the ticks of the retry timer that find a retry needed, one finds it
\* ready.  Nothing is assumed of the resync timer, whose period is the
\* longest.
Fairness ==
  /\ []<>(pc # "run")
  /\ WF_vars(RunUpdate)
  /\ WF_vars(RunSetSyncStatusDone)
  /\ WF_vars(RunAfterPass)
  /\ WF_vars(PeriodicExit)
  /\ SF_vars(CallReimport)
  /\ SF_vars(CallRetryReady)

SpecFair == InitRun /\ [][NextFair]_vars /\ Fairness

\* ------------------------------------------- a source that settles
\* The commit the source stays at once it has settled
StableCommit == "c2"
\* No call fails any more: the failing calls of the execution are behind
Settled == faults = MaxFaults
\* the pass in the log found the source at StableCommit with a done file
\* that names that commit
StableRun ==
  \E i \in 1..Len(log) : /\ log[i].e = "doneFile"
                         /\ log[i].commit = StableCommit
                         /\ log[i].info = {""}
\* run, once the source has settled
RunSettled == RunCalled /\ (Settled => StableRun')
\* the periodic goroutine, with p.SyncErrors() empty once the source has settled
PeriodicTickSettled ==
  PeriodicTick /\ (Settled => \A t \in tasks' : t.pc = "write" => t.new.errs = NoErr)
\* case <-statusUpdateTimer.C, with p.SyncErrors() empty once the source has
\* settled
RunStatusUpdateSettled == RunStatusUpdate /\ (Settled => loc'.syncErrs = NoErr)

\* The reconciler whose source settles after the failing calls
NextSettle ==
  \/ CallResync
  \/ CallReimport
  \/ CallRetry
  \/ RunSettled
  \/ RunUpdate
  \/ RunSetSyncStatusDone
  \/ RunAfterPass
  \/ RunStatusUpdateSettled
  \/ RunStatusUpdateDone
  \/ PeriodicTickSettled
  \/ PeriodicWriteDone
  \/ PeriodicExit

\* As Fairness, and moreover: every write of the sync status returns, and the
\* resync and the statusUpdate case are taken again and again
FairnessSettle ==
  /\ []<>(pc # "run")
  /\ WF_vars(RunUpdate)
  /\ WF_vars(RunSetSyncStatusDone)
  /\ WF_vars(RunAfterPass)
  /\ WF_vars(RunStatusUpdateDone)
  /\ WF_vars(PeriodicWriteDone)
  /\ WF_vars(PeriodicExit)
  /\ SF_vars(CallResync)
  /\ SF_vars(CallReimport)
  /\ SF_vars(CallRetryReady)
  /\ SF_vars(RunStatusUpdateSettled)

SpecSettle == Init /\ [][NextSettle]_vars /\ FairnessSettle

\* The driver alone, with its four timers tracked and the resets after each
\* pass kept
NextTimers ==
  \/ RunResync
  \/ RunReimport
  \/ RunRetryTimer
  \/ RunUpdate
  \/ RunSetSyncStatusDone
  \/ RunResetTimers
  \/ RunStatusUpdateResets
  \/ RunStatusUpdateDoneResets
  \/ PeriodicExit

SpecTimers == InitRun /\ [][NextTimers]_vars

\* ------------------------------------------------------------------ claims
Events == {log[i] : i \in 1..Len(log)}
SourceWrites == {i \in 1..Len(log) : log[i].e = "write" /\ log[i].sub = "source"}
RenderingWrites == {i \in 1..Len(log) : log[i].e = "write" /\ log[i].sub = "rendering"}
SyncWrites == {i \in 1..Len(log) : log[i].e = "write" /\ log[i].sub = "sync"}
PassEnded == pc = "ret"

\* C1 (as stated): if a SyncStatus write was issued during a pass, then at the
\* end of the pass the published SyncStatus.commit equals the published
\* SourceStatus.commit.
C1_IssuedSyncWriteGivesEqualCommits ==
  (PassEnded /\ SyncWrites # {}) => syncStatus.commit = sourceStatus.commit

\* C1 (amended): if the post-Apply SyncStatus write of a pass succeeded, the
\* commit it published equals the published SourceStatus.commit at the end of
\* the pass.
C1_PublishedSyncCommitIsSourceCommit ==
  PassEnded => \A i \in SyncWrites : log[i].ok => log[i].commit = sourceStatus.commit

C1_Witness ==
  /\ PassEnded
  /\ \E i \in SyncWrites : log[i].ok /\ log[i].commit = "c2"
  /\ sourcePublished = Commits

\* C2: for every writer of SyncStatus (post-Apply write, periodic goroutine,
\* statusUpdate case of Run), a SyncStatus carrying commit C is never written
\* before a SourceStatus for C has been published.
C2_SyncNeverBeforeSource ==
  /\ syncStatus.commit # NoCommit => syncStatus.commit \in sourcePublished
  /\ (pc \in {"postApplyWait", "statusWait"} /\ loc.write /\ loc.new.commit # NoCommit)
       => loc.new.commit \in sourcePublished
  /\ \A t \in tasks :
       (t.pc = "write" /\ t.new.commit # NoCommit) => t.new.commit \in sourcePublished

\* C3: if the SourceStatus write issued after parse fails, Update is not
\* invoked, the periodic goroutine is not started, no SyncStatus is written in
\* the pass, and the pass ends with invalidate and not with checkpoint.
C3_FailedSourceWriteAbortsPass ==
  (\E i \in SourceWrites : log[i].stage = "parse" /\ ~log[i].ok)
    => /\ pc = "ret"
       /\ \A e \in Events : e.e \notin {"Update", "startPeriodic", "checkpoint"}
       /\ SyncWrites = {}
       /\ \A t \in tasks : ~t.own
       /\ log[Len(log)].e = "invalidate"
       /\ WriteErr \in log[Len(log)].info
       /\ cache.needToRetry /\ ~checkpointed

C3_Witness ==
  /\ PassEnded
  /\ \E i \in SourceWrites : log[i].stage = "parse" /\ ~log[i].ok /\ log[i].commit = "c2"
  /\ \E e \in Events : e.e = "parseSource"

\* C4 (as stated): whenever a pass writes a SourceStatus for commit C, a
\* RenderingStatus write for C was issued earlier in the pass or the published
\* rendering status was already for C; no pass writes a SourceStatus for C
\* while the published RenderingStatus carries another commit.
C4_RenderingBeforeSource ==
  \A i \in SourceWrites :
    /\ \/ \E j \in RenderingWrites : j < i /\ log[j].commit = log[i].commit
       \/ renderingStatus.commit = log[i].commit
    /\ renderingStatus.commit = log[i].commit

\* C4 (amended): the same for the SourceStatus writes of the read stage and
\* after parse; the write that reports a failure of SourceCommitAndDir is
\* issued before any rendering write.
C4_RenderingBeforeSourceAfterRead ==
  \A i \in SourceWrites :
    log[i].stage \in {"read", "parse"}
      => /\ \/ \E j \in RenderingWrites : j < i /\ log[j].commit = log[i].commit
            \/ renderingStatus.commit = log[i].commit
         /\ renderingStatus.commit = log[i].commit

C4_Witness ==
  \E i \in SourceWrites :
    /\ log[i].stage = "parse"
    /\ log[i].commit = "c2"
    /\ \E j \in RenderingWrites : j < i /\ log[j].commit = "c2" /\ log[j].ok

\* C5: the periodic goroutine has stopped before the driver issues its
\* post-Apply SyncStatus write: the goroutine of a pass issues no write once
\* the driver has issued the post-Apply write of that pass.
C5_NoPeriodicWriteAfterPostApply ==
  [][(\E t \in tasks' : t.own /\ t.pc = "write" /\ t \notin tasks)
       => ~(pc \in {"postApplyWait", "ret"})]_vars

\* C6: the reconciler state is assigned by the driver only: a step that
\* changes a field of the state is a step of the driver.
C6_OnlyDriverMutatesState ==
  [][stateVars' # stateVars => pc' # pc]_vars

\* C7: at most one write of the sync status is in flight at a time: a write of
\* a periodic goroutine and a write of the driver are never in flight together,
\* nor are the writes of two goroutines.
C7_OneSyncWriteInFlight ==
  Cardinality({t \in tasks : t.pc = "write"})
    + Failed(pc \in {"postApplyWait", "statusWait"} /\ loc.write) <= 1

\* C8: at most one handler of the Run loop (a pass for any trigger, or the
\* status update) is in flight.
C8_OnePassInFlight == inFlight <= 1

C8_Witness ==
  /\ inFlight = 1
  /\ pc = "apply"
  /\ \A c \in Cases \ {"cancel"} : CanProceed(c)

\* C9: when several cases can proceed at a select of the Run loop, the one
\* written first (cancel, resync, poll, retry, statusUpdate) is taken.
C9_FirstReadyCaseIsTaken == ~preempted

\* C10 (as stated): in a reimport pass whose read stage leaves the cached
\* syncDir as it was, neither the parser nor the applier is invoked and the
\* pass returns without checkpoint or invalidate.
C10_UnchangedReimportSkips ==
  (trigger = triggerReimport /\ \E e \in Events : e.e = "read" /\ e.ok)
    => \A e \in Events : e.e \notin {"parseSource", "Update", "checkpoint", "invalidate"}

\* C10 (amended): the same when moreover the read stage returned no error.
C10_UnchangedReimportSkipsAfterRead ==
  (trigger = triggerReimport /\ \E e \in Events : e.e = "read" /\ e.ok /\ e.info = {})
    => /\ pc = "ret"
       /\ \A e \in Events : e.e \notin {"parseSource", "Update", "checkpoint", "invalidate"}

C10_Witness ==
  /\ PassEnded
  /\ trigger = triggerReimport
  /\ \E e \in Events : e.e = "read" /\ e.ok /\ e.info = {}
  /\ cache.source.syncDir = HydratedDir("c1")
  /\ checkpointed

ReadUnchanged == \E e \in Events : e.e = "read" /\ e.ok /\ e.info = {}
ReadChanged == \E e \in Events : e.e = "read" /\ ~e.ok /\ e.info = {}
Called(name) == \E e \in Events : e.e = name

\* C11: in a resync pass whose read stage succeeds with the cached syncDir
\* unchanged, the files are not read again (the source snapshot was kept) and
\* the parser is invoked again (the parser result was cleared).
C11_ResyncParsesAgainWithoutReading ==
  (trigger = triggerResync /\ ReadUnchanged)
    => /\ ~Called("readConfigFiles")
       /\ Called("parseSource")
       /\ cache.parserResult.has

C11_Witness ==
  /\ trigger = triggerResync
  /\ ReadUnchanged
  /\ Called("parseSource")
  /\ cache.source.syncDir = HydratedDir("c1")
  /\ pc = "apply"

\* C12: in a pass whose read stage succeeds with a syncDir other than the
\* cached one, the files are read, the parser result is not up to date at the
\* entry of the parse stage, and the parser is invoked on the new snapshot.
C12_NewSyncDirIsParsed ==
  ReadChanged
    => /\ Called("readConfigFiles")
       /\ Called("parseSource")
       /\ cache.parserResult.has
       /\ cache.parserResult.commit = cache.source.commit

C12_Witness ==
  /\ ReadChanged
  /\ cache.source.syncDir = RawDir("c2")
  /\ cache.parserResult.commit = "c2"
  /\ "c1" \in sourcePublished

\* C13: whenever the cached parser result is up to date it was produced from
\* the cached source snapshot, and what Update is given was parsed from the
\* cached source commit.
C13_CacheCoherence ==
  /\ parserResultUpToDate(cache) => cache.parserResult.commit = cache.source.commit
  /\ pc = "apply"
       => cache.parserResult.has /\ cache.parserResult.commit = cache.source.commit

C13_Witness ==
  /\ pc = "apply"
  /\ parserResultUpToDate(cache)
  /\ cache.source.commit = "c2"
  /\ sourcePublished = Commits

PassStarts == {e \in Events : e.e = "run"}

EveryStageSucceeded ==
  /\ \E e \in Events : e.e = "SourceCommitAndDir" /\ e.ok
  /\ ~Called("reset")
  /\ ~Called("invalidate")
  /\ \A e \in Events : e.e = "write" => e.ok
  /\ \A i \in RenderingWrites :
       log[i].info \subseteq {RenderingSucceeded, RenderingSkipped}
  /\ \E e \in Events : e.e = "read" /\ e.info = {}
  /\ \A e \in Events : e.e = "parseSource" => e.ok
  /\ \E e \in Events : e.e = "Update" /\ e.ok
  /\ \A e \in Events : e.e = "report" => e.ok

DoneFileNotReady ==
  \E e \in Events : e.e = "doneFile" /\ e.info = {RenderingInProgress}
DoneFileCommit == (CHOOSE e \in Events : e.e = "doneFile").commit
InProgressStatus ==
  [commit |-> DoneFileCommit, message |-> RenderingInProgress, errs |-> NoErr]
NoSourceOrSyncWork ==
  /\ SourceWrites = {} /\ SyncWrites = {}
  /\ ~Called("readConfigFiles") /\ ~Called("parseSource") /\ ~Called("Update")

\* The state without its log
StateOf(o) ==
  <<o.cache, o.renderingStatus, o.sourceStatus, o.checkpointed, o.at>>

\* C16 (as stated): when the done file is absent or names another commit, the
\* pass publishes RenderingStatus{commit, InProgress} and resets the state,
\* and it neither writes a SourceStatus or SyncStatus nor reads, parses or
\* applies.
C16_InProgressPublishesAndResets ==
  DoneFileNotReady
    => /\ \E i \in RenderingWrites :
            /\ log[i].ok
            /\ log[i].commit = DoneFileCommit
            /\ log[i].info = {RenderingInProgress}
       /\ Called("reset")
       /\ NoSourceOrSyncWork

\* C16 (amended): when the done file is absent or names another commit, the
\* pass neither writes a SourceStatus or SyncStatus nor reads, parses or
\* applies; it writes RenderingStatus{commit, InProgress} unless that is
\* the published value already; when no write failed the state is reset and
\* the published RenderingStatus is that value, when the write failed the
\* pass ends with invalidate and without reset.  A pass that finds the
\* done file absent leaves the state that it leaves when the file names
\* another commit.
C16_InProgressResetsUnlessWriteFails ==
  /\ DoneFileNotReady
       => /\ PassEnded
          /\ NoSourceOrSyncWork
          /\ Cardinality(RenderingWrites) <= 1
          /\ \A i \in RenderingWrites :
               log[i].commit = DoneFileCommit /\ log[i].info = {RenderingInProgress}
          /\ IF \E i \in RenderingWrites : ~log[i].ok
             THEN Called("invalidate") /\ ~Called("reset") /\ cache.needToRetry
             ELSE /\ Called("reset") /\ ~Called("invalidate")
                  /\ renderingStatus = InProgressStatus
                  /\ cache = EmptyCache
          /\ ~checkpointed
  /\ \A s \in Resolved({PassStart(cache, renderingStatus, sourceStatus, checkpointed, 0)}) :
       s.at = "gate"
         => \A ok \in BOOLEAN :
              StateOf(renderGate(s, "absent", ok)) = StateOf(renderGate(s, "wrong", ok))

C16_Witness ==
  /\ DoneFileNotReady
  /\ PassEnded
  /\ Called("reset")
  /\ \E i \in RenderingWrites : log[i].ok
  /\ cache = EmptyCache

\* The read stage of the pass in the log found no hydrated directory
RenderingWasSkipped ==
  \E e \in Events : e.e = "readFromSource" /\ e.info = {RenderingSkipped}
SkippedCommit ==
  (CHOOSE e \in Events : e.e = "readFromSource" /\ e.info = {RenderingSkipped}).commit
RawSourceState(c) == [commit |-> c, syncDir |-> RawDir(c)]
ReadSucceeded == \E e \in Events : e.e = "read" /\ e.info = {}

\* C17 (as stated): when the done file matches and there is no hydrated
\* directory, the read stage gives the rendering message Skipped without
\* error, the source directory of the commit is what is read and cached, and
\* the pass goes on to parse.
C17_SkippedReadsRawAndParses ==
  (RenderingWasSkipped /\ \E e \in Events : e.e = "read")
    => /\ \A e \in Events : e.e = "readFromSource" => e.ok
       /\ cache.source = RawSourceState(SkippedCommit)
       /\ Called("parseAndUpdate")

\* C17 (amended): when the done file matches and there is no hydrated
\* directory, the read stage gives the rendering message Skipped without
\* error and the files it reads are those of the source directory of the
\* commit; when read returns no error that source state is the cached one,
\* and the pass goes on to parse unless it is a reimport pass that found the
\* cached syncDir unchanged.
C17_SkippedReadsRawAndParsesAfterRead ==
  (RenderingWasSkipped /\ \E e \in Events : e.e = "read")
    => /\ \A e \in Events : e.e = "readFromSource" => e.ok
       /\ \A e \in Events :
            e.e = "readConfigFiles"
              => e.commit = SkippedCommit /\ e.info = {RawDir(SkippedCommit)}
       /\ ReadSucceeded
            => /\ cache.source = RawSourceState(SkippedCommit)
               /\ Called("parseAndUpdate") <=> ~(trigger = triggerReimport /\ ReadUnchanged)
       /\ ~ReadSucceeded => ~Called("parseAndUpdate")

C17_Witness ==
  /\ RenderingWasSkipped
  /\ Called("readConfigFiles")
  /\ ReadSucceeded
  /\ Called("parseAndUpdate")
  /\ cache.source = RawSourceState(SkippedCommit)

\* read returned transient errors in the pass in the log
ReadTransient == \E e \in Events : e.e = "read" /\ TransientErr \in e.info
StatusWrites == {i \in 1..Len(log) : log[i].e = "write"}

\* C18: a pass whose read returns transient errors writes no status, leaves
\* the rendering, source and sync status of the state as they were, calls
\* invalidate (needToRetry becomes TRUE) and neither parses nor applies.
C18_TransientReadPublishesNothing ==
  [][(pc = "select" /\ ReadTransient')
       => /\ PassEnded'
          /\ StatusWrites' = {}
          /\ renderingStatus' = renderingStatus
          /\ sourceStatus' = sourceStatus
          /\ syncStatus' = syncStatus
          /\ Called("invalidate")'
          /\ cache'.needToRetry
          /\ ~checkpointed'
          /\ ~Called("parseAndUpdate")' /\ ~Called("parseSource")' /\ ~Called("Update")'
          /\ ~Called("startPeriodic")']_vars

C18_Witness ==
  /\ ReadTransient
  /\ PassEnded
  /\ Called("readConfigFiles")
  /\ cache.needToRetry
  /\ sourceStatus # EmptySourceStatus

\* p.parseSource returned blocking errors in the pass in the log
ParsedBlocking == \E e \in Events : e.e = "parseSource" /\ e.info = {ParseBlocking}
BlockedSourceStatus == [commit |-> cache.source.commit, errs |-> ParseBlocking]
NotApplied ==
  /\ PassEnded
  /\ ~Called("startPeriodic") /\ ~Called("Update")
  /\ SyncWrites = {}
  /\ Called("invalidate")
  /\ cache.needToRetry

\* C19 (as stated): a pass whose parse returns blocking errors publishes the
\* SourceStatus of the parsed commit with those errors, does not start the
\* periodic goroutine, does not call Update, leaves the SyncStatus as it was
\* and ends with invalidate.
C19_BlockingErrorsPublishedNotApplied ==
  [][(pc = "select" /\ ParsedBlocking')
       => /\ sourceStatus' = BlockedSourceStatus'
          /\ NotApplied'
          /\ syncStatus' = syncStatus]_vars

\* C19 (amended): a pass whose parse returns blocking errors does not start
\* the periodic goroutine, does not call Update, leaves the SyncStatus as it
\* was and ends with invalidate; it writes the SourceStatus of the parsed
\* commit with those errors unless that is the published value already, and
\* when the write fails the published SourceStatus stays as it was.
C19_BlockingErrorsNotApplied ==
  [][(pc = "select" /\ ParsedBlocking')
       => /\ NotApplied'
          /\ syncStatus' = syncStatus
          /\ \A i \in SourceWrites' :
               log'[i].commit = cache'.source.commit /\ log'[i].info = {ParseBlocking}
          /\ IF \E i \in SourceWrites' : ~log'[i].ok
             THEN sourceStatus' = sourceStatus
             ELSE sourceStatus' = BlockedSourceStatus'
          /\ (sourceStatus # BlockedSourceStatus') => SourceWrites' # {}]_vars

C19_Witness ==
  /\ ParsedBlocking
  /\ PassEnded
  /\ \E i \in SourceWrites : log[i].ok
  /\ sourceStatus = BlockedSourceStatus
  /\ syncStatus # EmptySyncStatus

\* The pass in the log started from a checkpointed state
CheckpointedAtStart == \E e \in PassStarts : "checkpointed" \in e.info
\* The pass in the log found the commit, the syncDir and the done file of the
\* cached source, and no call of it returned an error
UnchangedSource ==
  /\ \E e \in Events : e.e = "SourceCommitAndDir" /\ e.ok
  /\ \E e \in Events : e.e = "doneFile" /\ e.info = {""}
  /\ \A e \in Events : e.e = "readFromSource" => e.ok
  /\ ReadUnchanged
  /\ \A e \in Events : e.e \in {"parseSource", "Update", "report", "write"} => e.ok
\* The write of event ev would publish the value that the state holds as
\* the published one
SameAsPublished(ev) ==
  CASE ev.sub = "source" ->
         ev.commit = sourceStatus.commit /\ ev.info = {sourceStatus.errs}
    [] ev.sub = "rendering" ->
         ev.commit = renderingStatus.commit /\ ev.info = {renderingStatus.message}
    [] ev.sub = "sync" ->
         ev.commit = syncStatus.commit /\ ev.info = SyncInfo(syncStatus)

\* C20 (as stated): a pass that starts from a checkpointed state and finds
\* the source unchanged, with no failing call, performs no status write.
C20_NoWriteOverUnchangedSource ==
  (CheckpointedAtStart /\ UnchangedSource) => StatusWrites = {}

\* C20 (amended): run never writes a status equal to the one the state holds
\* as published; a pass that starts from a checkpointed state and finds the
\* source unchanged, with no failing call, writes no rendering status and no
\* source status, and it writes the sync status after Update only when the
\* published sync status is no longer the one of the checkpoint (a periodic
\* goroutine or the statusUpdate case has published another one in between).
C20_EqualStatusIsNotWrittenAgain ==
  [][/\ \A i \in (Len(log) + 1)..Len(log') :
          log'[i].e = "write" => ~SameAsPublished(log'[i])
     /\ (pc = "select" /\ checkpointed /\ UnchangedSource')
          => RenderingWrites' = {} /\ SourceWrites' = {}
     /\ (pc = "apply" /\ pc' = "postApplyWait" /\ CheckpointedAtStart /\ UnchangedSource')
          => (loc'.write <=> syncStatus # NewSyncStatus(cache, FALSE, NoErr))]_vars

C20_Witness ==
  /\ CheckpointedAtStart
  /\ UnchangedSource
  /\ Called("parseSource")
  /\ Called("Update")
  /\ PassEnded
  /\ StatusWrites = {}

\* ---------------------------------------------------------------- C21
\* the events a step adds to the history of the pass
NewEvents == {i \in 1..Len(log') : i > Len(log)}
FailedWrite(sub) == \E i \in NewEvents : /\ log'[i].e = "write"
                                         /\ log'[i].sub = sub
                                         /\ ~log'[i].ok
SucceededWrite(sub) == \E i \in NewEvents : /\ log'[i].e = "write"
                                            /\ log'[i].sub = sub
                                            /\ log'[i].ok
\* a step of the driver's statusUpdate case or of the periodic goroutine that
\* completes a setSyncStatus call
UnloggedSyncWrite ==
  \/ pc = "statusWait" /\ pc' = "select"
  \/ \E t \in tasks : t.pc = "write" /\ t \notin tasks'
\* the setSyncStatus call of the statusUpdate case has conflicts to report
\* after its write, and the report can fail too
ReportMayFail == pc = "statusWait" /\ loc.conflict
\* every assignment of the timestamp comes right after a call of the status
\* writer that returned no error, and none comes after a failed write
TimestampFollowsSuccess ==
  \A i \in 1..Len(log) :
     /\ log[i].e = "lastUpdate" =>
          /\ i > 1
          /\ \/ /\ log[i-1].e = "write"
                /\ log[i-1].sub = log[i].sub
                /\ log[i-1].ok
             \/ /\ log[i].sub = "rendering"
                /\ log[i-1].e # "write"
     /\ (log[i].e = "write" /\ ~log[i].ok) =>
          \A j \in i+1..Len(log) : ~(log[j].e = "lastUpdate" /\ log[j].sub = log[i].sub)
     /\ (log[i].e = "write" /\ log[i].ok) =>
          /\ i < Len(log)
          /\ log[i+1] = LastUpdateEv(log[i].sub)

RootReconciler == ":root"
Managers == {[scope |-> RootReconciler, name |-> "root-b"],
             [scope |-> RootReconciler, name |-> "root-c"],
             [scope |-> "tenant", name |-> "repo-sync"]}
ManagerScopeAndName(m) == <<m.scope, m.name>>
Objects == {"o1", "o2"}
\* status.ManagementConflictError: the object, the conflicting manager and
\* the manager the error is worded for
ConflictErrors == [obj : Objects, manager : Managers, for : {"current"}]
ConflictingManager(e) == e.manager
\* conflictError.ConflictingManagerError(): the error as the conflicting
\* manager is to see it
ConflictingManagerError(e) == [e EXCEPT !.for = "conflicting"]

\* line 482-487: the errors grouped by conflicting manager, each group in the
\* order of conflictErrs
GroupOf(conflictErrs, m) ==
  LET mine == SelectSeq(conflictErrs, LAMBDA e : ConflictingManager(e) = m)
  IN [i \in 1..Len(mine) |-> ConflictingManagerError(mine[i])]
conflictingManagerErrors(conflictErrs) ==
  [m \in {ConflictingManager(conflictErrs[i]) : i \in 1..Len(conflictErrs)} |->
     GroupOf(conflictErrs, m)]

\* Variant of ReportsTo: every manager is written to
ReportsToAll(m) == TRUE
\* line 491: scope == declared.RootReconciler
ReportsTo(m) == ManagerScopeAndName(m)[1] = RootReconciler

\* prependRootSyncRemediatorStatus(ctx, k8sClient, name, conflictErrors, ...)
PrependEv(name, errs, ok) ==
  [e |-> "prependRootSyncRemediatorStatus", name |-> name, errs |-> errs, ok |-> ok]

\* the locals of reportRootSyncConflicts: its argument, the groups the range
\* has still to visit, the returned error
ReportLoc(conflictErrs, todo, err) ==
  [conflictErrs |-> conflictErrs, todo |-> todo, err |-> err]
SeqsUpTo(S, n) == UNION {[1..k -> S] : k \in 0..n}

\* reportRootSyncConflicts is called with some conflict errors
InitReport ==
  /\ cache = EmptyCache
  /\ renderingStatus = EmptyRenderingStatus
  /\ sourceStatus = EmptySourceStatus
  /\ syncStatus = EmptySyncStatus
  /\ checkpointed = FALSE
  /\ trigger = NoTrigger
  /\ ctxDone = FALSE
  /\ tasks = {}
  /\ log = <<>>
  /\ inFlight = 0
  /\ preempted = FALSE
  /\ sourcePublished = {}
  /\ faults = 0
  /\ timers = [t \in TimerNames |-> Untracked]
  /\ pc = "report"
  /\ \E conflictErrs \in SeqsUpTo(ConflictErrors, MaxConflictErrs) :
       loc = ReportLoc(conflictErrs, {}, NoErr)

ReportFrame == UNCHANGED <<cache, renderingStatus, sourceStatus, syncStatus, checkpointed,
                           trigger, timers, ctxDone, tasks, inFlight, preempted, faults,
                           sourcePublished>>

\* line 479-487: nothing to report, or the map of the groups is built
ReportGroups ==
  /\ pc = "report"
  /\ IF Len(loc.conflictErrs) = 0
     THEN pc' = "reported" /\ loc' = loc
     ELSE /\ pc' = "range"
          /\ loc' = [loc EXCEPT !.todo = DOMAIN conflictingManagerErrors(loc.conflictErrs)]
  /\ UNCHANGED log
  /\ ReportFrame

\* line 489-503: the range visits one more group, in the order of the map;
\* a failed write to a RootSync is returned at once
ReportGroup ==
  /\ pc = "range"
  /\ \E m \in loc.todo :
       IF ReportsTo(m)
       THEN \E ok \in BOOLEAN :
              /\ log' = Append(log, PrependEv(ManagerScopeAndName(m)[2],
                                    conflictingManagerErrors(loc.conflictErrs)[m], ok))
              /\ IF ok
                 THEN pc' = "range" /\ loc' = [loc EXCEPT !.todo = @ \ {m}]
                 ELSE pc' = "reported" /\ loc' = [loc EXCEPT !.err = ReportErr]
       ELSE /\ log' = log
            /\ pc' = "range"
            /\ loc' = [loc EXCEPT !.todo = @ \ {m}]
  /\ ReportFrame

\* line 505: every group was visited
ReportReturn ==
  /\ pc = "range"
  /\ loc.todo = {}
  /\ pc' = "reported"
  /\ UNCHANGED <<loc, log>>
  /\ ReportFrame

NextReport ==
  \/ ReportGroups
  \/ ReportGroup
  \/ ReportReturn

SpecReport == InitReport /\ [][NextReport]_vars

\* ------------------------------------------- setSyncStatus, call by call
\* A sync error that is no management conflict
OtherSyncError == [obj |-> "o1", kind |-> ApplyErr]
SyncErrors == ConflictErrors \cup {OtherSyncError}
\* line 438: err.(status.ManagementConflictError)
IsManagementConflict(e) == e \in ConflictErrors
\* line 435-442: the conflict errors of syncErrs, in their order
ConflictErrsOf(syncErrs) == SelectSeq(syncErrs, IsManagementConflict)

\* the locals of setSyncStatus and of the call of reportRootSyncConflicts it
\* makes: wrote tells what became of the status write ("none" before it,
\* "suppressed", "ok", "failed")
SyncLoc(syncing, syncErrs, new, write, wrote, err) ==
  [syncing |-> syncing, syncErrs |-> syncErrs, new |-> new, write |-> write,
   wrote |-> wrote, conflictErrs |-> <<>>, todo |-> {}, err |-> err]

\* setSyncStatus is about to be called, by the pass after Update
\* (syncing=false), by the periodic goroutine (syncing=true) or by the
\* statusUpdate case (p.Syncing())
InitSync ==
  /\ cache = [EmptyCache EXCEPT !.source = SourceStateToRead("c1")]
  /\ renderingStatus = EmptyRenderingStatus
  /\ sourceStatus = EmptySourceStatus
  /\ syncStatus = EmptySyncStatus
  /\ checkpointed = FALSE
  /\ trigger = NoTrigger
  /\ ctxDone = FALSE
  /\ tasks = {}
  /\ log = <<>>
  /\ inFlight = 0
  /\ preempted = FALSE
  /\ sourcePublished = {}
  /\ faults = 0
  /\ timers = [t \in TimerNames |-> Untracked]
  /\ pc = "call"
  /\ loc = SyncLoc(FALSE, <<>>, EmptySyncStatus, FALSE, "none", NoErr)

SyncFrame == UNCHANGED <<cache, renderingStatus, sourceStatus, checkpointed, trigger, timers,
                         ctxDone, tasks, inFlight, preempted, faults, sourcePublished>>

\* line 421-427: the new status and whether it has to be written
SetSyncStatusCall ==
  /\ pc = "call"
  /\ \E syncing \in BOOLEAN, syncErrs \in SeqsUpTo(SyncErrors, MaxSyncErrs) :
       LET new == NewSyncStatus(cache, syncing, syncErrs)
           write == needToSetSyncStatus(syncStatus, new)
       IN /\ loc' = SyncLoc(syncing, syncErrs, new, write,
                            IF write THEN "none" ELSE "suppressed", NoErr)
          /\ pc' = IF write THEN "write" ELSE "extract"
  /\ log' = <<>>
  /\ UNCHANGED syncStatus
  /\ SyncFrame

\* line 428-432: p.SetSyncStatus returns
SetSyncStatusWrite ==
  /\ pc = "write"
  /\ \E ok \in BOOLEAN :
       /\ syncStatus' = IF ok THEN loc.new ELSE syncStatus
       /\ loc' = [loc EXCEPT !.wrote = IF ok THEN "ok" ELSE "failed"]
  /\ pc' = "extract"
  /\ UNCHANGED log
  /\ SyncFrame

\* line 429-430 and 434-444: a failed write is returned; otherwise the
\* conflict errors are extracted and given to reportRootSyncConflicts, which
\* returns at once when there is none
SetSyncStatusExtract ==
  /\ pc = "extract"
  /\ LET conflictErrs == ConflictErrsOf(loc.syncErrs)
     IN IF ReportsConflicts(loc.wrote = "failed", conflictErrs # <<>>)
        THEN /\ pc' = "report"
             /\ loc' = [loc EXCEPT !.conflictErrs = conflictErrs]
        ELSE /\ pc' = "returned"
             /\ loc' = [loc EXCEPT !.err = IF loc.wrote = "failed" THEN WriteErr ELSE NoErr]
  /\ UNCHANGED <<syncStatus, log>>
  /\ SyncFrame

\* setSyncStatus has returned to its caller, which calls it again later
SetSyncStatusReturn ==
  /\ pc \in {"returned", "reported"}
  /\ pc' = "call"
  /\ UNCHANGED <<syncStatus, loc, log>>
  /\ SyncFrame

NextSync ==
  \/ SetSyncStatusCall
  \/ SetSyncStatusWrite
  \/ SetSyncStatusExtract
  \/ ReportGroups
  \/ ReportGroup
  \/ ReportReturn
  \/ SetSyncStatusReturn

SpecSync == InitSync /\ [][NextSync]_vars

\* ---------------------------------------------------------------- C22
Reported == pc = "reported"
RootGroups == {m \in Managers : /\ m.scope = RootReconciler
                                /\ \E i \in 1..Len(loc.conflictErrs) :
                                      loc.conflictErrs[i].manager = m}
\* the errors of conflictErrs that name manager m, worded for m
ErrorsOf(m) ==
  LET idx == {i \in 1..Len(loc.conflictErrs) : loc.conflictErrs[i].manager = m}
  IN {[loc.conflictErrs[i] EXCEPT !.for = "conflicting"] : i \in idx}
Range(f) == {f[i] : i \in DOMAIN f}
CallsTo(m) == {i \in 1..Len(log) : log[i].name = m.name}

\* C22 as stated: when reportRootSyncConflicts has returned, every group of
\* a RootSync manager was written once with the errors of that group, and
\* nothing else was written.
C22_EveryRootGroupReportedOnce ==
  Reported =>
    /\ \A m \in RootGroups :
          /\ Cardinality(CallsTo(m)) = 1
          /\ \A i \in CallsTo(m) : Range(log[i].errs) = ErrorsOf(m)
    /\ Len(log) = Cardinality(RootGroups)

\* C22: when reportRootSyncConflicts has returned, every call of
\* prependRootSyncRemediatorStatus was for a RootSync manager that has a
\* group, with exactly the errors of that group, at most once per manager;
\* only the last call can have failed, and then its error is returned and
\* the groups not yet visited are not written; when no call failed every
\* RootSync group was written once and nil is returned. A group of a
\* namespaced manager is never written and gives no error.
C22_RootGroupsReportedUntilFailure ==
  Reported =>
    /\ \A i \in 1..Len(log) :
          \E m \in RootGroups :
             /\ log[i].name = m.name
             /\ Range(log[i].errs) = ErrorsOf(m)
             /\ Len(log[i].errs) = Cardinality({j \in 1..Len(loc.conflictErrs) :
                                                  loc.conflictErrs[j].manager = m})
             /\ CallsTo(m) = {i}
    /\ \A i \in 1..Len(log) : ~log[i].ok => i = Len(log)
    /\ loc.err # NoErr <=> (Len(log) > 0 /\ ~log[Len(log)].ok)
    /\ loc.err = NoErr => \A m \in RootGroups : CallsTo(m) # {}
    /\ RootGroups = {} => log = <<>> /\ loc.err = NoErr

\* two RootSync groups were written and nil was returned, and the error that
\* names the RepoSync manager was written nowhere
C22_Witness ==
  /\ Reported
  /\ Len(log) = 2
  /\ \A i \in 1..Len(log) : log[i].ok
  /\ \E i \in 1..Len(loc.conflictErrs) : loc.conflictErrs[i].manager.scope # RootReconciler
  /\ loc.err = NoErr

\* ---------------------------------------------------------------- C23
FailedReports == {i \in 1..Len(log) : log[i].e = "report" /\ ~log[i].ok}
\* C23: when the report of the conflicts to another RootSync fails in the
\* status update after Update, the next thing the pass does is invalidate,
\* with the error of the report together with the errors Update returned;
\* the pass calls no checkpoint, is not checkpointed and needs a retry.
C23_FailedReportInvalidates ==
  \A i \in FailedReports :
     /\ log[i].stage = "postApply"
     /\ i = Len(log) - 1
     /\ log[i+1].e = "invalidate"
     /\ ReportErr \in log[i+1].info
     /\ \E j \in 1..i : /\ log[j].e = "Update"
                        /\ ~log[j].ok
                        /\ log[j].info \subseteq log[i+1].info
     /\ ~Called("checkpoint")
     /\ PassEnded
     /\ ~checkpointed
     /\ cache.needToRetry

\* a pass whose SyncStatus write succeeded and whose report failed
C23_Witness ==
  /\ FailedReports # {}
  /\ \E i \in SyncWrites : log[i].ok
  /\ PassEnded

\* ---------------------------------------------------------------- C24
Running(tm, t) == tm[t] \in {"armed", "stale"}
Resets == {ev \in Events : ev.e = "Reset"}
\* the step of Run after run has returned
AfterPass == pc = "ret" /\ pc' = "select"
\* the step resets the timers ts and no other: these run after it, and the
\* others are as they were
RestartsExactly(ts) ==
  /\ \A ev \in Resets' : ev.info = ts
  /\ \A t \in ts : Running(timers', t)
  /\ \A t \in TimerNames \ ts : timers'[t] = timers[t]
\* C24: after a resync pass exactly the resync, retry and statusUpdate
\* timers are restarted and the poll timer is untouched; after a reimport
\* pass exactly the poll, retry and statusUpdate timers, the resync timer
\* untouched; after a pass started from the retry timer (managementConflict,
\* retry, watchUpdate) exactly the retry and statusUpdate timers.
C24_TimersRestartedAfterPass ==
  [][AfterPass =>
       /\ Resets' # {}
       /\ trigger \in {triggerResync, triggerReimport, triggerManagementConflict,
                       triggerRetry, triggerWatchUpdate}
       /\ trigger = triggerResync => RestartsExactly({"resync", "retry", "statusUpdate"})
       /\ trigger = triggerReimport => RestartsExactly({"poll", "retry", "statusUpdate"})
       /\ trigger \in {triggerManagementConflict, triggerRetry, triggerWatchUpdate} =>
            RestartsExactly({"retry", "statusUpdate"})]_vars

\* the timers were reset after a pass of the retry case that failed
C24_Witness ==
  /\ pc = "select"
  /\ \E ev \in Resets : ev.info = {"retry", "statusUpdate"}
  /\ cache.needToRetry
  /\ \A t \in TimerNames : Running(timers, t)

\* ---------------------------------------------------------------- C25
\* a receive from the retry timer after which Run is at its select again:
\* the tick found nothing to do
IdleRetryTick == pc = "select" /\ pc' = "select" /\ timers'["retry"] # timers["retry"]
\* the tick runs no pass, changes no reconciler state and resets no timer
TickDoesNothing ==
  /\ UNCHANGED <<stateVars, trigger, loc, log, inFlight, tasks, faults, sourcePublished>>
  /\ \A t \in TimerNames \ {"retry"} : timers'[t] = timers[t]
\* at a select with the retry timer unarmed no case restarts it, and the
\* pass that starts, if any, is a resync or a reimport pass
StaysUnarmed ==
  (pc = "select" /\ timers["retry"] = "idle") =>
     /\ timers'["retry"] = "idle"
     /\ trigger' \in {NoTrigger, triggerResync, triggerReimport}
\* C25: a tick of the retry timer with no management conflict, no retry that
\* is needed and ready and no watch to update runs no pass, changes no
\* reconciler state and restarts no timer, and the retry timer is unarmed
\* after it; it stays unarmed until the resets that follow a later resync or
\* reimport pass.
C25_IdleRetryTickLeavesTimerUnarmed ==
  [][/\ IdleRetryTick => TickDoesNothing /\ timers'["retry"] = "idle"
     /\ StaysUnarmed]_vars

\* ---------------------------------------------------------------- C26
\* the steps of the statusUpdate case: setSyncStatus is called, setSyncStatus
\* has returned, or the commits differ and nothing is written
StatusTickCalls == pc = "select" /\ pc' = "statusWait"
StatusTickReturns == pc = "statusWait" /\ pc' = "select"
StatusTickSkips == pc = "select" /\ pc' = "select" /\ timers' = timers /\ log' # log
PublishedCommitsEqual ==
  /\ syncStatus.commit = sourceStatus.commit
  /\ syncStatus.commit = renderingStatus.commit
\* the case ends: no collaborator of a pass was called, neither checkpoint
\* nor invalidate, no RenderingStatus and no SourceStatus was written, and
\* the statusUpdate timer alone was reset
OnlyStatusUpdateTimerReset ==
  /\ log' = <<ResetEv({"statusUpdate"})>>
  /\ Running(timers', "statusUpdate")
  /\ \A t \in TimerNames \ {"statusUpdate"} : timers'[t] = timers[t]
  /\ UNCHANGED <<cache, renderingStatus, sourceStatus, checkpointed, trigger>>
\* setSyncStatus is about to report conflicts to another RootSync
ReportsToRootSync == pc = "statusWait" /\ ReportsConflicts(FALSE, loc.conflict)

\* C26 as stated: on a tick of the statusUpdate timer the SyncStatus is the
\* only thing that can be written, and only when the published commits are
\* equal; no collaborator of a pass is called, nothing else of the state
\* changes and the statusUpdate timer alone is restarted.
C26_StatusTickWritesAtMostSyncStatus ==
  [][/\ StatusTickCalls =>
          /\ PublishedCommitsEqual
          /\ ~ReportsToRootSync'
          /\ UNCHANGED <<stateVars, log, trigger>>
     /\ StatusTickReturns =>
          /\ OnlyStatusUpdateTimerReset
          /\ syncStatus' # syncStatus => loc.write /\ syncStatus' = loc.new
     /\ StatusTickSkips =>
          /\ ~PublishedCommitsEqual
          /\ OnlyStatusUpdateTimerReset
          /\ syncStatus' = syncStatus]_vars

\* C26: on a tick of the statusUpdate timer the SyncStatus is written only
\* when the published commits are equal, and besides it only the conflicts
\* of the sync errors can be written, to the RootSync they name; no
\* collaborator of a pass is called, nothing else of the state changes and
\* the statusUpdate timer alone is restarted.
C26_StatusTickWritesSyncStatusAndConflicts ==
  [][/\ StatusTickCalls =>
          /\ PublishedCommitsEqual
          /\ ReportsToRootSync' => loc'.syncErrs # NoErr
          /\ UNCHANGED <<stateVars, log, trigger>>
     /\ StatusTickReturns =>
          /\ OnlyStatusUpdateTimerReset
          /\ syncStatus' # syncStatus => loc.write /\ syncStatus' = loc.new
     /\ StatusTickSkips =>
          /\ ~PublishedCommitsEqual
          /\ OnlyStatusUpdateTimerReset
          /\ syncStatus' = syncStatus]_vars

\* a tick of the statusUpdate timer has published sync errors that no pass
\* had, and has reset its timer
C26_Witness ==
  /\ pc = "select"
  /\ log = <<ResetEv({"statusUpdate"})>>
  /\ syncStatus.errs = ApplyErr
  /\ faults = 0
  /\ PublishedCommitsEqual

\* ---------------------------------------------------------------- C27
\* the pass in the history started from the empty state
FromEmptyState == \E e \in PassStarts : "empty" \in e.info
\* the pass went through Update and its status update with no error, and was
\* checkpointed
SucceededEndToEnd ==
  /\ PassEnded
  /\ EveryStageSucceeded
  /\ \E e \in Events : e.e = "Update" /\ e.ok
  /\ Called("checkpoint")
\* the status writes of the driver in the pass, in their order
DriverWrites == SelectSeq(log, LAMBDA e : e.e = "write")
\* the writes of the driver are Rendering{C, Succeeded or Skipped}, then
\* Source{C, no errs}, then Sync{C, syncing=false, no errs}
WritesInOrder(C) ==
  /\ Len(DriverWrites) = 3
  /\ DriverWrites[1].sub = "rendering"
  /\ DriverWrites[1].commit = C
  /\ DriverWrites[1].info \subseteq {RenderingSucceeded, RenderingSkipped}
  /\ DriverWrites[2].sub = "source"
  /\ DriverWrites[2].commit = C
  /\ DriverWrites[2].info = {NoErr}
  /\ DriverWrites[3].sub = "sync"
  /\ DriverWrites[3].commit = C
  /\ DriverWrites[3].info = SyncInfo([commit |-> C, syncing |-> FALSE, errs |-> NoErr])
  /\ DriverWrites[3].stage = "postApply"
\* no write of the periodic publisher of the pass comes after the final write
\* of the driver: none is in flight and the last value written is the final
FinalWriteIsLast(C) ==
  /\ syncStatus = [commit |-> C, syncing |-> FALSE, errs |-> NoErr]
  /\ \A t \in tasks : t.own => t.pc # "write"

\* C27: a pass over a new commit C that succeeds end-to-end from the empty
\* state writes Rendering{C, Succeeded or Skipped}, then Source{C, no errs},
\* then the periodic publisher writes Sync{C, syncing=true} zero or more
\* times, and Sync{C, syncing=false, no errs} is the last write; at the end
\* the state is checkpointed and no retry is needed.
C27_ColdStartWritesInOrder ==
  /\ (FromEmptyState /\ pc \in {"apply", "postApplyWait", "ret"}) =>
        \A t \in tasks : (t.own /\ t.pc = "write") =>
           t.new.commit = cache.source.commit /\ t.new.syncing
  /\ (FromEmptyState /\ SucceededEndToEnd) =>
        /\ WritesInOrder(cache.source.commit)
        /\ FinalWriteIsLast(cache.source.commit)
        /\ checkpointed
        /\ ~cache.needToRetry

\* ---------------------------------------------------------------- C28
\* the context was cancelled while the driver waits before a
\* managementConflict pass
CancelledInSleep == pc = "sleep" /\ Called("ctx cancelled")
\* C28, for the wait that precedes a managementConflict pass: when the
\* context is cancelled during that wait the driver stops waiting and starts
\* no pass, so its next step is the return of Run.
C28_CancelInterruptsSleep ==
  [][(CancelledInSleep /\ pc' # pc) => pc' = "done"]_vars

\* ---------------------------------------------------------------- C29
\* the step of a pass that found the rendering in progress
InProgressPass == pc = "select" /\ pc' = "ret" /\ DoneFileNotReady'
\* the cache run is called with: the resync and the managementConflict cases
\* reset all but the source state before they call run
GivenCache ==
  IF trigger' \in {triggerResync, triggerManagementConflict}
  THEN resetAllButSourceState(cache)
  ELSE cache
InProgressWriteFailed == \E i \in RenderingWrites : ~log[i].ok
ReadsNoFiles == ~Called("readConfigFiles") /\ ~Called("readFromSource") /\ ~Called("read")
\* C29: in a pass that finds the rendering in progress, when the write of
\* RenderingStatus{InProgress} returns no error the state is reset and the
\* published rendering status is the new value; when it fails the cache the
\* pass was given and the published statuses are left as they were, and
\* invalidate is called with the error of the write and marks the retry;
\* either way the pass returns without reading files.
C29_ResetOnlyIfInProgressPublished ==
  [][InProgressPass =>
       /\ ReadsNoFiles'
       /\ IF InProgressWriteFailed'
          THEN /\ cache' = invalidate(GivenCache)
               /\ renderingStatus' = renderingStatus
               /\ sourceStatus' = sourceStatus
               /\ syncStatus' = syncStatus
               /\ log'[Len(log')] = InvalidateEv({WriteErr})
               /\ ~Called("reset")'
          ELSE /\ cache' = resetCache(GivenCache)
               /\ renderingStatus' = InProgressStatus'
               /\ Called("reset")'
               /\ ~Called("invalidate")']_vars

\* the write of RenderingStatus{InProgress} failed in a pass that had a
\* source in its cache: the source is still there and a retry is needed
C29_Witness ==
  /\ DoneFileNotReady
  /\ PassEnded
  /\ InProgressWriteFailed
  /\ Called("invalidate")
  /\ cache.source # EmptySource
  /\ cache.needToRetry

\* ---------------------------------------------------------------- C30
\* the errors that occurred in the pass: those its collaborators returned,
\* those read returned, and the failures of its status writes and of its
\* report of conflicts
ErrorsOfPass ==
  UNION ({e.info : e \in {e \in Events : /\ e.e \in {"SourceCommitAndDir", "parseSource",
                                                     "Update"}
                                         /\ ~e.ok}}
         \cup {e.info : e \in {e \in Events : e.e = "read"}}
         \cup {{WriteErr} : e \in {e \in Events : e.e = "write" /\ ~e.ok}}
         \cup {{ReportErr} : e \in {e \in Events : e.e = "report" /\ ~e.ok}})
\* C30: a pass that ends with invalidate gives it all the errors that
\* occurred in the pass, the failures of its status writes included: when
\* the SourceStatus write that publishes a file-read error fails, invalidate
\* gets the read error and the error of the write.
C30_InvalidateGetsAllErrors ==
  \A e \in Events : e.e = "invalidate" => ErrorsOfPass \subseteq e.info

\* ---------------------------------------------------------------- C31
\* p.parseSource returned errors in the pass in the log, none blocking
ParsedNonBlocking == \E e \in Events : e.e = "parseSource" /\ e.info = {ParseNonBlocking}
NonBlockingSourceStatus == [commit |-> cache.source.commit, errs |-> ParseNonBlocking]
\* what Update is given: the result of the parser for the cached source
NonBlockingParserResult ==
  [has |-> TRUE, errs |-> ParseNonBlocking, commit |-> cache.source.commit]
LastEvent == log[Len(log)]
\* the pass ended with invalidate: a retry is needed and it is not checkpointed
EndedWithInvalidate ==
  /\ LastEvent.e = "invalidate"
  /\ ~Called("checkpoint")
  /\ cache.needToRetry
  /\ ~checkpointed

\* C31 as stated: a pass whose parse returns only non-blocking errors
\* publishes the SourceStatus with those errors and calls Update on the parsed
\* result, and it ends with invalidate whatever Update and the status writes
\* return.
C31_NonBlockingErrorsPublishedAndApplied ==
  ParsedNonBlocking
    => /\ sourceStatus = NonBlockingSourceStatus
       /\ Called("startPeriodic")
       /\ PassEnded => Called("Update") /\ EndedWithInvalidate

\* C31: a pass whose parse returns only non-blocking errors writes the
\* SourceStatus of the parsed commit with those errors unless that is the
\* published value already.  When that write fails the published SourceStatus
\* stays as it was, Update is not called and the pass ends with invalidate,
\* given the parse errors and the error of the write.  Otherwise the published
\* SourceStatus is that value, the periodic goroutine is started and Update
\* is called with the parsed result, and the pass ends with invalidate, given
\* the parse errors, whatever Update and the later writes return.
C31_NonBlockingErrorsAppliedUnlessWriteFails ==
  ParsedNonBlocking
    => /\ \A i \in SourceWrites :
            log[i].commit = cache.source.commit /\ log[i].info = {ParseNonBlocking}
       /\ cache.parserResult = NonBlockingParserResult
       /\ IF \E i \in SourceWrites : ~log[i].ok
          THEN /\ PassEnded
               /\ sourceStatus # NonBlockingSourceStatus
               /\ ~Called("startPeriodic") /\ ~Called("Update")
               /\ SyncWrites = {}
               /\ {ParseNonBlocking, WriteErr} \subseteq LastEvent.info
          ELSE /\ sourceStatus = NonBlockingSourceStatus
               /\ Called("startPeriodic")
               /\ pc \in {"apply", "postApplyWait", "ret"}
               /\ pc \in {"postApplyWait", "ret"} => Called("Update")
               /\ PassEnded => ParseNonBlocking \in LastEvent.info
       /\ PassEnded => EndedWithInvalidate

\* a pass with non-blocking parse errors whose Update and status writes all
\* succeeded has ended with invalidate
C31_Witness ==
  /\ ParsedNonBlocking
  /\ PassEnded
  /\ \E e \in Events : e.e = "Update" /\ e.ok
  /\ \A i \in StatusWrites : log[i].ok
  /\ \E i \in SyncWrites : log[i].info = SyncInfo([commit |-> "c2", syncing |-> FALSE,
                                                   errs |-> NoErr])
  /\ sourceStatus = NonBlockingSourceStatus
  /\ LastEvent = InvalidateEv({ParseNonBlocking})

\* ---------------------------------------------------------------- C32
\* select takes the case of the retry timer
RetryTick == pc = "select" /\ timers'["retry"] # timers["retry"]
\* the trigger of the case when the collaborator reports a conflict
ConflictComesFirst ==
  \A ready \in BOOLEAN, watch \in BOOLEAN :
     RetryTrigger(TRUE, ready, watch) = triggerManagementConflict
\* the case chose managementConflict: the parser result is cleared, the source
\* is kept, nothing is published and the driver waits
ClearsAndWaits ==
  /\ pc' = "sleep"
  /\ cache'.source = cache.source
  /\ cache'.parserResult = EmptyParserResult
  /\ cache' = resetAllButSourceState(cache)
  /\ Len(log') = 1
  /\ UNCHANGED <<renderingStatus, sourceStatus, syncStatus, checkpointed>>
\* the wait is over and run is called: it resolves the source, and when its
\* read succeeds it parses again whatever syncDir it found
FullPassRuns ==
  /\ trigger = triggerManagementConflict
  /\ trigger' = trigger
  /\ pc' \in {"apply", "ret"}
  /\ Called("SourceCommitAndDir")'
  /\ ReadSucceeded' => Called("parseAndUpdate")' /\ Called("parseSource")'

\* C32: on a tick of the retry timer one trigger is chosen, in the order
\* managementConflict, retry, watchUpdate: with a management conflict the
\* trigger is managementConflict whatever needToRetry and needToUpdateWatch
\* are, the parser result is cleared with the source kept, the driver waits
\* one poll period and then run is called; the retry trigger is chosen only
\* when a retry is needed and ready, the watchUpdate trigger only when it is
\* not, and with no trigger nothing runs.
C32_ConflictRetryWatchInOrder ==
  [][/\ RetryTick =>
          /\ ConflictComesFirst
          /\ trigger' \in {triggerManagementConflict, triggerRetry, triggerWatchUpdate,
                           NoTrigger}
          /\ trigger' = triggerManagementConflict => ClearsAndWaits
          /\ trigger' = triggerRetry => cache.needToRetry /\ log'[1].ok /\ pc' # "sleep"
          /\ trigger' = triggerWatchUpdate =>
               ~(cache.needToRetry /\ log'[1].ok) /\ pc' # "sleep"
          /\ trigger' = NoTrigger => pc' = "select" /\ UNCHANGED <<stateVars, log>>
     /\ (pc = "sleep" /\ pc' # pc) => FullPassRuns]_vars

\* a managementConflict pass that was chosen while a retry was needed and not
\* yet ready has parsed the source it kept, without reading the files again
C32_Witness ==
  /\ trigger = triggerManagementConflict
  /\ pc = "apply"
  /\ ~log[1].ok
  /\ ReadUnchanged
  /\ Called("parseSource")
  /\ cache.source.commit = "c2"

\* ---------------------------------------------------------------- C33
\* a step of Run that calls run
PassStartsNow == pc = "select" /\ pc' \in {"apply", "ret"}
\* C33: a pass with the retry trigger starts only from the case of the retry
\* timer, in a state where a retry is needed (needToRetry) and ready
\* (readyToRetry); a tick of the retry timer that comes before the retry is
\* ready, with no management conflict and no watch to update, chooses no
\* trigger, and the pass such a tick starts, if any, has the trigger
\* managementConflict or watchUpdate.
C33_RetryPassOnlyWhenFailedAndReady ==
  [][/\ (PassStartsNow /\ trigger' = triggerRetry) =>
          /\ RetryTick
          /\ cache.needToRetry
          /\ log'[1].e = "run" /\ log'[1].ok
     /\ (RetryTick /\ cache.needToRetry) =>
          /\ RetryTrigger(FALSE, FALSE, FALSE) = NoTrigger
          /\ (PassStartsNow /\ ~log'[1].ok) =>
               trigger' \in {triggerManagementConflict, triggerWatchUpdate}]_vars

\* a retry pass that started after a failed pass, the retry being ready, has
\* gone through Update and has ended checkpointed
C33_Witness ==
  /\ trigger = triggerRetry
  /\ PassEnded
  /\ \E e \in PassStarts : e.ok /\ "checkpointed" \notin e.info
  /\ Called("Update")
  /\ checkpointed
  /\ timers["retry"] = "idle"

\* Run is at its select after a tick of the retry timer that started no pass
\* although a retry is needed
IdleTickWhileRetryNeeded == pc = "select" /\ timers["retry"] = "idle" /\ cache.needToRetry

\* ---------------------------------------------------------------- C34
\* the assignments of state.syncingConditionLastUpdate in the pass
TimestampAssignments == {i \in 1..Len(log) : log[i].e = "lastUpdate"}
\* C34: in a pass, state.syncingConditionLastUpdate is assigned the
\* lastUpdate of a sub-status right after each successful write of that
\* sub-status, so it is the lastUpdate of the sub-status written most
\* recently and never older than one published later; it is assigned
\* nowhere else: a write that failed or that was suppressed leaves it as it
\* was.
C34_TimestampOfLastSuccessfulWrite ==
  /\ \A i \in StatusWrites :
        log[i].ok => i < Len(log) /\ log[i+1] = LastUpdateEv(log[i].sub)
  /\ \A i \in TimestampAssignments :
        /\ i > 1
        /\ log[i-1].e = "write"
        /\ log[i-1].ok
        /\ log[i-1].sub = log[i].sub

\* ---------------------------------------------------------------- C35
\* a pass has ended with invalidate
FailedPassEnded == PassEnded /\ LastEvent.e = "invalidate" /\ cache.needToRetry
\* Run is at its select and a retry is needed
RetryPending == pc = "select" /\ cache.needToRetry
\* a pass is in progress or has ended that the early exit of the reimport
\* trigger did not cut short
FullPass ==
  /\ pc \in {"apply", "postApplyWait", "ret"}
  /\ ~(trigger = triggerReimport /\ ReadUnchanged /\ ~Called("parseAndUpdate"))
\* the retry pass runs, or the retry is needed no more (a pass of another
\* trigger has succeeded or has reset the state)
RetriedOrCleared ==
  \/ trigger = triggerRetry /\ pc \in {"run", "apply", "ret"}
  \/ ~cache.needToRetry
Converged(C) ==
  /\ renderingStatus.commit = C /\ renderingStatus.errs = NoErr
  /\ sourceStatus = [commit |-> C, errs |-> NoErr]
  /\ syncStatus = [commit |-> C, syncing |-> FALSE, errs |-> NoErr]
  /\ checkpointed
  /\ ~cache.needToRetry
InvalidatedAfterCheckpoint ==
  /\ pc = "ret"
  /\ "checkpointed" \in log[1].info
  /\ EndedWithInvalidate

ReadFailed == \E e \in Events : e.e = "readConfigFiles" /\ ~e.ok
\* readFromSource of the pass in the log got as far as the comparison of the
\* syncDir with the cached one
ReachedSyncDirCheck == \E e \in Events : e.e = "readFromSource" /\ e.ok
\* readConfigFiles was called by the pass in the log and succeeded
FilesRead == \E e \in Events : e.e = "readConfigFiles" /\ e.ok
\* run found the cached syncDir as it was before read
SyncDirUnchanged == \E e \in Events : e.e = "read" /\ e.ok

\* C38: a failed read of the files of a new syncDir leaves the cached source
\* snapshot empty, and it stays empty until the next pass; a pass of any
\* trigger that starts with the empty snapshot and gets to the comparison of
\* the syncDir calls readConfigFiles again, and once the read succeeds run
\* sees a changed syncDir and goes on to parseAndUpdate, also for reimport.
C38_FailedReadLeavesSnapshotEmpty ==
  /\ [](ReadFailed => cache.source = EmptySource)
  /\ [][pc = "ret" => cache'.source = cache.source]_vars
  /\ [][(PassStartsNow /\ cache.source = EmptySource) =>
          /\ ReachedSyncDirCheck' => Called("readConfigFiles")'
          /\ FilesRead' => ~SyncDirUnchanged'
          /\ ReadSucceeded' => Called("parseAndUpdate")']_vars

\* a pass that started from a checkpointed state, found a new syncDir and
\* failed to read its files
C38_Witness ==
  /\ pc = "ret"
  /\ "checkpointed" \in log[1].info
  /\ ReadFailed
  /\ cache.source = EmptySource

\* ---------------------------------------------------------------- C39
\* setSyncStatus has returned
SetSyncStatusReturned == pc \in {"returned", "reported"}
\* the RootSync managers that the conflicts of the sync errors name
ConflictingRootSyncs ==
  {m \in Managers : /\ m.scope = RootReconciler
                    /\ \E i \in 1..Len(loc.syncErrs) :
                          /\ loc.syncErrs[i] \in ConflictErrors
                          /\ loc.syncErrs[i].manager = m}
\* the conflicts of the sync errors were given to reportRootSyncConflicts,
\* which wrote to a conflicting RootSync when there is one
ConflictsForwarded ==
  /\ pc = "reported"
  /\ loc.conflictErrs = ConflictErrsOf(loc.syncErrs)
  /\ ConflictingRootSyncs # {} => log # <<>>
  /\ \A i \in 1..Len(log) : \E m \in ConflictingRootSyncs : log[i].name = m.name

\* C39: in a call of setSyncStatus a conflict is written to a RootSync only
\* after the status write was suppressed or succeeded; when the write failed
\* the call returns its error and reports nothing; when the write was
\* suppressed or succeeded and the sync errors hold conflicts they are given
\* to reportRootSyncConflicts, in every call, whatever syncing is.
C39_ConflictsReportedUnlessWriteFailed ==
  /\ log # <<>> => loc.wrote \in {"suppressed", "ok"}
  /\ SetSyncStatusReturned =>
        /\ loc.wrote = "failed" => (log = <<>> /\ loc.err = WriteErr /\ pc = "returned")
        /\ (loc.wrote # "failed" /\ ConflictErrsOf(loc.syncErrs) # <<>>) => ConflictsForwarded

\* a periodic call (syncing=true) whose write was suppressed as equal to the
\* published status and that reported a conflict to a RootSync
C39_Witness ==
  /\ pc = "reported"
  /\ loc.syncing
  /\ loc.wrote = "suppressed"
  /\ log # <<>>

\* =================================================== the otel controller
\* OtelReconciler (controllers package): in the specification of this
\* section cache holds the objects of the monitoring namespace as the client
\* reads them, trigger the name of the request, loc the locals of Reconcile
\* (and the memory of the request before), log the API calls Reconcile made.
OtelCollectorName == "otel-collector"
OtelCollectorCustomCM == "otel-collector-custom"
OtelCollectorGooglecloud == "otel-collector-googlecloud"
OtherConfigMap == "other-config"
RequestNames ==
  {OtelCollectorName, OtelCollectorCustomCM, OtelCollectorGooglecloud, OtherConfigMap}
\* the ConfigMaps the controller reads or writes
OtelConfigMaps == {OtelCollectorName, OtelCollectorCustomCM, OtelCollectorGooglecloud}
\* a ConfigMap is absent or holds one of the versions of its content
Absent == 0
Versions == 1..MaxVersion
\* the content configureGooglecloudConfigMap gives the googlecloud map
\* (metrics.CollectorConfigGooglecloud and the labels)
GooglecloudContent == 1

\* hash(cm): a digest of the object, here one byte for its name and content
NameCode(n) ==
  CASE n = OtelCollectorName -> 1
    [] n = OtelCollectorCustomCM -> 2
    [] n = OtelCollectorGooglecloud -> 3
    [] OTHER -> 4
hash(name, version) == <<(NameCode(name) * 31 + version * 17) % 256>>
\* the nil hash
NilHash == <<>>
\* fmt.Sprintf("%x", configMapDataHash): two hexadecimal digits for a byte
HexDigits == <<"0", "1", "2", "3", "4", "5", "6", "7", "8", "9", "a", "b", "c", "d", "e", "f">>
Hex(bytes) ==
  [i \in 1..(2 * Len(bytes)) |->
     LET b == bytes[(i + 1) \div 2]
     IN IF i % 2 = 1 THEN HexDigits[(b \div 16) + 1] ELSE HexDigits[(b % 16) + 1]]
\* the Deployment has no annotation of the key yet
NoAnnotation == <<>>

\* an API call of the reconciler with its result
ApiEv(verb, kind, name, result) == [verb |-> verb, kind |-> kind, name |-> name, result |-> result]
\* c.Patch of the Deployment, from the annotation old to the annotation new
PatchEv(old, new, ok) ==
  [verb |-> "Patch", kind |-> "Deployment", name |-> OtelCollectorName,
   result |-> IF ok THEN "ok" ELSE "error", old |-> old, new |-> new]

\* the monitoring namespace: the version of each ConfigMap, the annotation of
\* the otel-collector Deployment, whether default credentials are injected
Cluster(cms, annotation, creds) == [cms |-> cms, annotation |-> annotation, creds |-> creds]
\* the locals of Reconcile; name and ok: the request before and whether it
\* returned nil; changedBefore, changed: something of the namespace was
\* changed by another actor since the start of the request before, of this
\* request
OtelLoc(h, err, name, ok, changedBefore, changed) ==
  [hash |-> h, err |-> err, name |-> name, ok |-> ok,
   changedBefore |-> changedBefore, changed |-> changed]

InitOtel ==
  /\ cache = Cluster([n \in OtelConfigMaps |-> Absent], NoAnnotation, FALSE)
  /\ renderingStatus = EmptyRenderingStatus
  /\ sourceStatus = EmptySourceStatus
  /\ syncStatus = EmptySyncStatus
  /\ checkpointed = FALSE
  /\ trigger = NoTrigger
  /\ ctxDone = FALSE
  /\ tasks = {}
  /\ log = <<>>
  /\ inFlight = 0
  /\ preempted = FALSE
  /\ sourcePublished = {}
  /\ faults = 0
  /\ timers = [t \in TimerNames |-> Untracked]
  /\ pc = "idle"
  /\ loc = OtelLoc(NilHash, FALSE, NoTrigger, FALSE, FALSE, FALSE)

OtelFrame == UNCHANGED <<renderingStatus, sourceStatus, syncStatus, checkpointed, timers,
                         ctxDone, tasks, inFlight, preempted, sourcePublished>>

\* another actor creates, updates or deletes a ConfigMap
ConfigMapChanged ==
  /\ \E n \in OtelConfigMaps, v \in {Absent} \cup Versions :
       /\ v # cache.cms[n]
       /\ cache' = [cache EXCEPT !.cms[n] = v]
  /\ loc' = [loc EXCEPT !.changed = TRUE]
  /\ UNCHANGED <<pc, trigger, log, faults>>
  /\ OtelFrame

\* default credentials are injected or withdrawn
CredentialsChanged ==
  /\ cache' = [cache EXCEPT !.creds = ~@]
  /\ loc' = [loc EXCEPT !.changed = TRUE]
  /\ UNCHANGED <<pc, trigger, log, faults>>
  /\ OtelFrame

\* another actor removes the annotation of the Deployment
DeploymentChanged ==
  /\ cache.annotation # NoAnnotation
  /\ cache' = [cache EXCEPT !.annotation = NoAnnotation]
  /\ loc' = [loc EXCEPT !.changed = TRUE]
  /\ UNCHANGED <<pc, trigger, log, faults>>
  /\ OtelFrame

\* the controller calls Reconcile for a ConfigMap of the namespace
\* (MaxConcurrentReconciles: 1)
OtelRequest ==
  /\ pc = "idle"
  /\ \E n \in RequestNames : trigger' = n
  /\ pc' = "reconcileConfigMap"
  /\ log' = <<>>
  /\ loc' = [loc EXCEPT !.hash = NilHash, !.err = FALSE,
                        !.changedBefore = loc.changed, !.changed = FALSE]
  /\ UNCHANGED <<cache, faults>>
  /\ OtelFrame

\* configureGooglecloudConfigMap: the hash (NilHash: nil), whether an error
\* is returned, the API calls and the ConfigMaps afterwards; upsertOk: the
\* calls of CreateOrUpdate succeed
configureGooglecloudConfigMap(cl, upsertOk) ==
  IF ~cl.creds
  THEN [hash |-> NilHash, err |-> FALSE, calls |-> <<>>, cms |-> cl.cms]
  ELSE IF ~upsertOk
  THEN [hash |-> NilHash, err |-> TRUE,
        calls |-> <<ApiEv("CreateOrUpdate", "ConfigMap", OtelCollectorGooglecloud, "error")>>,
        cms |-> cl.cms]
  ELSE IF cl.cms[OtelCollectorGooglecloud] = GooglecloudContent
  THEN [hash |-> NilHash, err |-> FALSE,
        calls |-> <<ApiEv("CreateOrUpdate", "ConfigMap", OtelCollectorGooglecloud, "unchanged")>>,
        cms |-> cl.cms]
  ELSE [hash |-> hash(OtelCollectorGooglecloud, GooglecloudContent), err |-> FALSE,
        calls |-> <<ApiEv("CreateOrUpdate", "ConfigMap", OtelCollectorGooglecloud,
                          IF cl.cms[OtelCollectorGooglecloud] = Absent THEN "created"
                          ELSE "updated")>>,
        cms |-> [cl.cms EXCEPT ![OtelCollectorGooglecloud] = GooglecloudContent]]

\* reconcileConfigMap for the request name; getOk: r.client.Get returns the
\* object or NotFound, and not another error
reconcileConfigMap(name, cl, getOk, upsertOk) ==
  IF name # OtelCollectorName /\ name # OtelCollectorCustomCM
  THEN [hash |-> NilHash, err |-> FALSE, calls |-> <<>>, cms |-> cl.cms]
  ELSE IF ~getOk
  THEN [hash |-> NilHash, err |-> TRUE,
        calls |-> <<ApiEv("Get", "ConfigMap", name, "error")>>, cms |-> cl.cms]
  ELSE IF cl.cms[name] = Absent
  THEN [hash |-> NilHash, err |-> FALSE,
        calls |-> <<ApiEv("Get", "ConfigMap", name, "notfound")>>, cms |-> cl.cms]
  ELSE IF name = OtelCollectorName
  THEN LET r == configureGooglecloudConfigMap(cl, upsertOk)
       IN [r EXCEPT !.calls = <<ApiEv("Get", "ConfigMap", name, "ok")>> \o @]
  ELSE [hash |-> hash(name, cl.cms[name]), err |-> FALSE,
        calls |-> <<ApiEv("Get", "ConfigMap", name, "ok")>>, cms |-> cl.cms]

\* Reconcile, line 69-77
ReconcileConfigMap ==
  /\ pc = "reconcileConfigMap"
  /\ \E getOk \in BOOLEAN, upsertOk \in BOOLEAN :
       LET r == reconcileConfigMap(trigger, cache, getOk, upsertOk)
       IN /\ faults' = faults + Failed(r.err)
          /\ faults' <= MaxFaults
          /\ r.calls = <<>> => (getOk /\ upsertOk)
          /\ cache' = [cache EXCEPT !.cms = r.cms]
          /\ log' = log \o r.calls
          /\ loc' = [loc EXCEPT !.hash = r.hash, !.err = r.err]
          /\ pc' = IF r.err \/ r.hash = NilHash THEN "done" ELSE "updateDeploymentAnnotation"
  /\ UNCHANGED trigger
  /\ OtelFrame

\* Variant of NeedsPatch: the Deployment is patched whatever its annotation
AlwaysPatches(existing, annotationValue) == TRUE
\* updateDeploymentAnnotation, line 164-171: the Deployment with the
\* annotation set differs from the one that was read
NeedsPatch(existing, annotationValue) == existing # annotationValue

\* Reconcile, line 78-82: updateDeploymentAnnotation
UpdateDeploymentAnnotation ==
  /\ pc = "updateDeploymentAnnotation"
  /\ \E getOk \in BOOLEAN, patchOk \in BOOLEAN :
       LET value == Hex(loc.hash)
           patches == getOk /\ NeedsPatch(cache.annotation, value)
           failed == ~getOk \/ (patches /\ ~patchOk)
       IN /\ ~patches => patchOk
          /\ faults' = faults + Failed(failed)
          /\ faults' <= MaxFaults
          /\ log' = log \o <<ApiEv("Get", "Deployment", OtelCollectorName,
                                   IF getOk THEN "ok" ELSE "error")>>
                       \o (IF patches THEN <<PatchEv(cache.annotation, value, patchOk)>>
                           ELSE <<>>)
          /\ cache' = IF patches /\ patchOk THEN [cache EXCEPT !.annotation = value]
                      ELSE cache
          /\ loc' = [loc EXCEPT !.err = failed]
  /\ pc' = "done"
  /\ UNCHANGED trigger
  /\ OtelFrame

\* Reconcile returns to the controller
ReconcileReturn ==
  /\ pc = "done"
  /\ pc' = "idle"
  /\ loc' = [loc EXCEPT !.name = trigger, !.ok = ~loc.err]
  /\ UNCHANGED <<cache, trigger, log, faults>>
  /\ OtelFrame

NextOtel ==
  \/ ConfigMapChanged
  \/ CredentialsChanged
  \/ DeploymentChanged
  \/ OtelRequest
  \/ ReconcileConfigMap
  \/ UpdateDeploymentAnnotation
  \/ ReconcileReturn

SpecOtel == InitOtel /\ [][NextOtel]_vars

\* ---------------------------------------------------------------- C40
\* Reconcile is about to return
ReconcileDone == pc = "done"
PatchCalls == {i \in 1..Len(log) : log[i].verb = "Patch"}
DeploymentCalls == {i \in 1..Len(log) : log[i].kind = "Deployment"}
\* the request is for a ConfigMap that the Get did not find
ConfigMapNotFound == Len(log) > 0 /\ log[1].result = "notfound"
\* the request before was for the same ConfigMap and returned nil, and no
\* other actor has changed anything since it started
SecondReconcileUnchanged ==
  /\ loc.name = trigger
  /\ loc.ok
  /\ ~loc.changedBefore
  /\ ~loc.changed

\* C40: a request for a ConfigMap other than otel-collector and
\* otel-collector-custom makes no API call and returns nil; a request for a
\* ConfigMap that does not exist makes no other call than the Get that does
\* not find it and returns nil; a patch of the Deployment is issued only when
\* its annotation differs from the hash; and of two successive requests for
\* the same unchanged ConfigMap the second issues no patch.
C40_DeploymentPatchedOnlyWhenNeeded ==
  ReconcileDone =>
    /\ trigger \notin {OtelCollectorName, OtelCollectorCustomCM} => (log = <<>> /\ ~loc.err)
    /\ ConfigMapNotFound => (Len(log) = 1 /\ ~loc.err)
    /\ \A i \in PatchCalls : log[i].old # log[i].new /\ log[i].new = Hex(loc.hash)
    /\ SecondReconcileUnchanged => PatchCalls = {}

\* the second of two requests for the unchanged otel-collector-custom map,
\* which reads the Deployment and finds the annotation equal to the hash
C40_Witness ==
  /\ ReconcileDone
  /\ trigger = OtelCollectorCustomCM
  /\ SecondReconcileUnchanged
  /\ DeploymentCalls # {}
  /\ PatchCalls = {}
  /\ ~loc.err
  /\ cache.annotation = Hex(hash(OtelCollectorCustomCM, cache.cms[OtelCollectorCustomCM]))

====
